---- MODULE Spec2Model ----
(***************************************************************************)
(* Transaction ingestion pipeline of rm-analyzer:                          *)
(*   DatabaseService.save_transactions  (services/database_service.py)     *)
(*   Controller.process_queue_item      (controller.py)                    *)
(*   DatabaseService.get_credit_cards / update_card_balance                *)
(* The table store is the shared state; every store call (query, batch     *)
(* submit, entity read, entity update) is one atomic step of a worker.     *)
(***************************************************************************)
EXTENDS Integers, Sequences, FiniteSets, TLC

VARIABLES
    ledger,     \* transactions table: set of [PartitionKey, RowKey]
    cards,      \* credit cards table: RowKey -> entity
    wk,         \* per worker: the locals of the running call
    h,          \* per worker: history of the running call (snapshot, submissions)
    runs,       \* completed process_queue_item invocations, in completion order
    credited,   \* card RowKey -> transactions whose amount was written into it
    calls,      \* number of invocations started so far
    faults,     \* number of store calls that failed so far
    keylog,     \* calls of _generate_row_key made so far, with their results
    savings,    \* savings table: set of entities
    sv,         \* the locals of the running save_savings call
    svlog,      \* finished save_savings and get_savings calls, in order
    group,      \* Group.members in list order, and the add_transactions calls made
    parsed,     \* calls of parse_date and get_transactions made so far, with their results
    upload      \* handle_upload_async: the running request, the blob container,
                \* the processing queue and the finished requests

\* the variables of the ingestion pipeline, and those of the other operations
ingestVars == <<ledger, cards, wk, h, runs, credited, calls, faults>>
apiVars == <<keylog, savings, sv, svlog, group, parsed, upload>>

vars == <<ledger, cards, wk, h, runs, credited, calls, faults,
          keylog, savings, sv, svlog, group, parsed, upload>>

------------------------------------------------------------------------------
(* Bounds of the model *)

MaxLen == 3         \* longest enumerated input list
MaxCalls == 2       \* invocations per behaviour
MaxFaults == 1      \* failing store calls per behaviour (short-list specifications)
MaxIngestLen == 2   \* longest input list of a queue message
MaxRaceCalls == 2   \* queue messages per behaviour with two workers
MaxBulkCalls == 1   \* invocations per behaviour with the bulk inputs
MaxKeyCalls == 3    \* calls of _generate_row_key per behaviour
MaxSavingsCalls == 2    \* save_savings calls per behaviour
MaxSavingsGets == 1     \* get_savings calls per behaviour
MaxSavingsItems == 2    \* longest enumerated list of savings items
MaxSavingsFaults == 1   \* failing store calls per behaviour of the savings calls
MaxSavingsBulkCalls == 1    \* save_savings calls per behaviour with the long lists
MaxGroupLen == 2    \* longest list given to Group.add_transactions
MaxExpenseLen == 2      \* transactions per add_transactions call before the queries
MaxExpenseAdds == 1     \* add_transactions calls before the queries
MaxAsks == 1            \* queries of a group per behaviour
MaxDateCalls == 1       \* parse_date calls per behaviour
MaxCsvLines == 3        \* lines after the header of a CSV file
MaxCsvCalls == 1        \* get_transactions calls per behaviour
MaxQueueLines == 2      \* lines after the header of an uploaded file
MaxQueueCalls == 1      \* queue messages on uploaded files per behaviour
MaxGroupCalls == 2  \* Group.add_transactions calls per behaviour
BulkOver == 50      \* rows beyond a multiple of the batch size in the bulk inputs

(* Program constant: range(0, len(batch), 100) *)
BatchSize == 100

(* Program constant of save_savings: len(operations) <= 100, batch_size = 100 *)
SavingsBatchSize == 100

------------------------------------------------------------------------------
(* Data *)

None == "None"

\* datetime.date as <<year, month, day>>; isoformat() is injective on it
Jan10 == <<2024, 1, 10>>
Jan15 == <<2024, 1, 15>>
Jan20 == <<2024, 1, 20>>
Feb05 == <<2024, 2, 5>>

DateLT(a, b) ==
    \/ a[1] < b[1]
    \/ a[1] = b[1] /\ a[2] < b[2]
    \/ a[1] = b[1] /\ a[2] = b[2] /\ a[3] < b[3]

\* decimal.Decimal as coefficient and number of fractional digits:
\* Decimal("5") = [n |-> 5, scale |-> 0], Decimal("5.0") = [n |-> 50, scale |-> 1].
\* str() distinguishes the two, == and hash() do not.
Dec(n, scale) == [n |-> n, scale |-> scale]

Pow10(k) == IF k = 0 THEN 1 ELSE IF k = 1 THEN 10 ELSE 100

\* numeric value of a Decimal, in hundredths
AmountValue(a) == a.n * Pow10(2 - a.scale)

Transaction(d, name, acct, amount, category, ignore) ==
    [date |-> d, name |-> name, account_number |-> acct, amount |-> amount,
     category |-> category, ignore |-> ignore]

------------------------------------------------------------------------------
(* save_transactions: pure parts *)

\* pk = f"default_{t.date.strftime('%Y-%m')}"
PartitionKey(t) == <<"default", t.date[1], t.date[2]>>

\* keys of the defaultdict `partitions`, in insertion order
PartitionOrder(ts) ==
    LET first(i) == \A j \in 1..(i - 1) : PartitionKey(ts[j]) # PartitionKey(ts[i])
        idx == SelectSeq([i \in 1..Len(ts) |-> i], first)
    IN  [k \in 1..Len(idx) |-> PartitionKey(ts[idx[k]])]

\* partitions[pk]: the transactions of one partition, in input order
PartitionList(ts, pk) == SelectSeq(ts, LAMBDA t : PartitionKey(t) = pk)

\* txn_signature = (t.date, t.name, t.amount, t.account_number); tuple
\* equality compares the Decimal by value
Signature(t) == <<t.date, t.name, AmountValue(t.amount), t.account_number>>

\* (defect variant: the category is part of the hashed string)
GenerateRowKeyWithCategory(t, occurrence_index) ==
    <<t.date, t.name, <<t.amount.n, t.amount.scale>>, t.account_number,
      occurrence_index, t.category>>

\* sha256 of "date|name|amount|account|index": a digest of the string, taken
\* as collision free, so the key is the tuple of the formatted fields
\* (the amount enters by its text, not by its value)
GenerateRowKey(t, occurrence_index) ==
    <<t.date, t.name, <<t.amount.n, t.amount.scale>>, t.account_number,
      occurrence_index>>

\* occurrences[sig] after the first i iterations of `for t in trans_list`:
\* the defaultdict(int) is incremented once per row having that signature
Occurrences(trans_list, i, sig) ==
    Cardinality({j \in 1..i : Signature(trans_list[j]) = sig})

\* (defect variants: the index read before the decrement; the index ignored)
OccurrenceIdxOffByOne(count) == count
OccurrenceIdxZero(count) == 0

\* idx = occurrences[txn_signature] - 1, read after the increment
OccurrenceIdx(count) == count - 1

\* trans_with_keys: (t, row_key) per row of the partition, in input order
TransWithKeys(trans_list) ==
    [i \in 1..Len(trans_list) |->
        [t |-> trans_list[i],
         rk |-> GenerateRowKey(trans_list[i],
                    OccurrenceIdx(Occurrences(trans_list, i, Signature(trans_list[i]))))]]

\* (defect variant: the result of the query is dropped)
ExistingKeysNone(tbl, pk) == {}

\* rows of one partition as the query returns them
ExistingKeys(tbl, pk) == {e.RowKey : e \in {x \in tbl : x.PartitionKey = pk}}

\* the filter `if rk not in existing_keys`
NewRows(twk, existing_keys) == SelectSeq(twk, LAMBDA x : x.rk \notin existing_keys)

\* _create_transaction_entity: the fields that identify and date the record,
\* and the time of the call that wrote it
CreateTransactionEntity(t, pk, rk, timestamp) ==
    [PartitionKey |-> pk, RowKey |-> rk, Date |-> t.date, ImportedAt |-> timestamp]

\* (defect variant: the slice has no upper end, batch[i:])
SubBatchUnbounded(batch, i) == SubSeq(batch, i + 1, Len(batch))

\* sub_batch = batch[i : i + 100]
SubBatch(batch, i) ==
    SubSeq(batch, i + 1, IF i + BatchSize < Len(batch) THEN i + BatchSize ELSE Len(batch))

SeqSet(s) == {s[k] : k \in 1..Len(s)}

SeqsUpTo(S, n) == UNION {[1..k -> S] : k \in 0..n}

------------------------------------------------------------------------------
(* State *)

IdleWk ==
    [pc |-> "idle", caller |-> "none",
     transactions |-> <<>>, new_transactions |-> <<>>,
     parts |-> <<>>, p |-> 0, batch |-> <<>>, i |-> 0,
     card_updates |-> <<>>, u |-> 0, entity |-> None, cause |-> None,
     timestamp |-> 0, errors |-> <<>>]

NoHistory ==
    [store0 |-> {}, cards0 |-> <<>>, keyed |-> <<>>, fresh |-> <<>>,
     submits |-> <<>>, queryFailed |-> {}, failures |-> <<>>, logged |-> <<>>,
     updates |-> <<>>, invoked |-> <<>>, emails |-> <<>>, balance_calls |-> <<>>,
     exceptions |-> <<>>]

InitCards ==
    [rk \in {"1", "2"} |->
        IF rk = "1"
        THEN [RowKey |-> "1", AccountNumber |-> 1, CurrentBalance |-> 0,
              LastReconciled |-> Jan15, etag |-> 0]
        ELSE [RowKey |-> "2", AccountNumber |-> 2, CurrentBalance |-> 0,
              LastReconciled |-> None, etag |-> 0]]

\* no save_savings call is running
IdleSv ==
    [pc |-> "idle", pk |-> None, data |-> None, uuid |-> 0, before |-> {},
     operations |-> <<>>, i |-> 0, submits |-> <<>>, failures |-> <<>>]

\* no upload request is running
IdleUpload ==
    [pc |-> "idle", impl |-> "none", req |-> None, blob_name |-> None, events |-> <<>>]

\* no upload request was made: empty container, empty queue
NoUpload ==
    [now |-> 1, run |-> IdleUpload, blobs |-> {}, queue |-> <<>>, done |-> <<>>]

\* no Group has been constructed
NoGroup == [members |-> <<>>, added |-> <<>>, asked |-> <<>>]

\* the state of the key and savings operations before any call
InitKeySavings ==
    /\ keylog = <<>>
    /\ savings = {}
    /\ sv = IdleSv
    /\ svlog = <<>>
    /\ parsed = <<>>
    /\ upload = NoUpload

\* the state of the other operations before any call
InitApi ==
    /\ InitKeySavings
    /\ group = NoGroup

\* the tables and the counters of the ingestion pipeline
InitLedger ==
    /\ ledger = {}
    /\ cards = InitCards
    /\ runs = <<>>
    /\ credited = [rk \in DOMAIN InitCards |-> <<>>]
    /\ calls = 0
    /\ faults = 0

InitStore ==
    /\ InitApi
    /\ InitLedger

\* one caller of save_transactions
Init ==
    /\ InitStore
    /\ wk = [w \in {1} |-> IdleWk]
    /\ h = [w \in {1} |-> NoHistory]

------------------------------------------------------------------------------
(* save_transactions, database_service.py:85-157 *)

\* (defect variant: the handler re-raises)
OnSubmitErrorRaise == "raise"

\* what the handler of `except TableTransactionError` does with the error
OnSubmitError == "log"

\* leave the partition loop body: next partition, or `return new_transactions`
NextPartition(l) ==
    IF l.p < Len(l.parts)
    THEN [l EXCEPT !.p = l.p + 1, !.pc = "query", !.batch = <<>>, !.i = 0]
    ELSE [l EXCEPT !.pc = "saved", !.batch = <<>>, !.i = 0]

\* timestamp = datetime.now().isoformat(): the clock advances from one call
\* to the next
Now(started) == started + 1

\* lines 91-102: empty input returns at once; otherwise group by partition;
\* `errors` are the row errors the queue handler holds meanwhile (none for a
\* direct caller)
SaveBegin(w, T, caller, errors, limit) ==
    /\ wk[w].pc = "idle"
    /\ calls < limit
    /\ calls' = calls + 1
    /\ h' = [h EXCEPT ![w] = [NoHistory EXCEPT !.store0 = ledger, !.cards0 = cards,
                                               !.invoked = <<"save_transactions">>]]
    /\ wk' = [wk EXCEPT ![w] =
                IF T = <<>>
                THEN [IdleWk EXCEPT !.pc = "saved", !.caller = caller,
                                    !.errors = errors]
                ELSE [IdleWk EXCEPT !.pc = "query", !.caller = caller,
                                    !.errors = errors,
                                    !.timestamp = Now(calls),
                                    !.transactions = T,
                                    !.parts = PartitionOrder(T), !.p = 1]]
    /\ UNCHANGED <<ledger, cards, runs, credited, faults>>
    /\ UNCHANGED apiVars

\* (defect variant: new_transactions.insert(0, t))
TransactionsOfPrepended(new) == [k \in 1..Len(new) |-> new[Len(new) + 1 - k].t]

\* new_transactions.append(t) for every row of `new`
TransactionsOf(new) == [k \in 1..Len(new) |-> new[k].t]

\* batch.append(("upsert", entity, {"mode": REPLACE})) for every row of `new`
BatchOf(new, pk, timestamp) ==
    [k \in 1..Len(new) |->
        [op |-> "upsert",
         entity |-> CreateTransactionEntity(new[k].t, pk, new[k].rk, timestamp)]]

\* (PartitionKey, RowKey) of the entities of a batch
KeysOfOps(ops) == {<<ops[k].entity.PartitionKey, ops[k].entity.RowKey>> : k \in 1..Len(ops)}

\* (defect variant: an upsert that inserts beside the stored entity)
UpsertedInsertOnly(tbl, ops) == tbl \cup {ops[k].entity : k \in 1..Len(ops)}

\* the effect of a committed batch of upserts (mode REPLACE) on the table: an
\* entity stored under the same (PartitionKey, RowKey) is replaced
Upserted(tbl, ops) ==
    {e \in tbl : <<e.PartitionKey, e.RowKey>> \notin KeysOfOps(ops)}
        \cup {ops[k].entity : k \in 1..Len(ops)}

\* history: the rows with the partition they were keyed in
Tagged(rows, pk) ==
    [k \in 1..Len(rows) |-> [t |-> rows[k].t, rk |-> rows[k].rk, pk |-> pk]]

\* steps 1-3 of the partition loop body, as (trans_with_keys, new rows)
KeyAndFilter(trans_list, existing_keys) ==
    LET twk == TransWithKeys(trans_list)
    IN  [twk |-> twk, new |-> NewRows(twk, existing_keys)]

\* lines 105-143 for the current partition: keys, query of the existing row
\* keys (a failed query leaves existing_keys empty), filter, batch
QueryExisting(w, ok) ==
    /\ wk[w].pc = "query"
    /\ LET l == wk[w]
           pk == l.parts[l.p]
           existing_keys == IF ok THEN ExistingKeys(ledger, pk) ELSE {}
           r == KeyAndFilter(PartitionList(l.transactions, pk), existing_keys)
           l2 == [l EXCEPT !.new_transactions = l.new_transactions \o TransactionsOf(r.new),
                           !.batch = BatchOf(r.new, pk, l.timestamp), !.i = 0]
       IN  /\ wk' = [wk EXCEPT ![w] =
                        IF r.new = <<>> THEN NextPartition(l2)
                        ELSE [l2 EXCEPT !.pc = "submit"]]
           /\ h' = [h EXCEPT ![w].keyed = @ \o Tagged(r.twk, pk),
                             ![w].fresh = @ \o Tagged(r.new, pk),
                             ![w].queryFailed = IF ok THEN @ ELSE @ \cup {pk},
                             ![w].failures = IF ok THEN @ ELSE Append(@, "query"),
                             ![w].logged = IF ok THEN @ ELSE Append(@, "warning")]
    /\ faults' = IF ok THEN faults ELSE faults + 1
    /\ UNCHANGED <<ledger, cards, runs, credited, calls>>
    /\ UNCHANGED apiVars

\* lines 148-155: one chunk; the batch commits as a whole or not at all, and
\* a TableTransactionError is logged
SubmitTransaction(w, ok) ==
    /\ wk[w].pc = "submit"
    /\ LET l == wk[w]
           pk == l.parts[l.p]
           sub_batch == SubBatch(l.batch, l.i)
           l2 == [l EXCEPT !.i = l.i + BatchSize]
       IN  /\ ledger' = IF ok THEN Upserted(ledger, sub_batch) ELSE ledger
           /\ h' = [h EXCEPT ![w].submits =
                        Append(@, [pk |-> pk, ops |-> sub_batch, ok |-> ok]),
                             ![w].failures = IF ok THEN @ ELSE Append(@, "submit"),
                             ![w].logged = IF ok THEN @ ELSE Append(@, "error")]
           /\ wk' = [wk EXCEPT ![w] =
                        IF ~ok /\ OnSubmitError = "raise"
                        THEN [l EXCEPT !.pc = "raised"]
                        ELSE IF l2.i < Len(l.batch) THEN l2
                        ELSE NextPartition(l2)]
    /\ faults' = IF ok THEN faults ELSE faults + 1
    /\ UNCHANGED <<cards, runs, credited, calls>>
    /\ UNCHANGED apiVars

\* the record of a finished call
RunRecordOf(l, hist, outcome) ==
    [input |-> l.transactions, result |-> l.new_transactions,
     outcome |-> outcome,
     store0 |-> hist.store0, store1 |-> ledger,
     cards0 |-> hist.cards0, cards1 |-> cards,
     keyed |-> hist.keyed, fresh |-> hist.fresh, submits |-> hist.submits,
     queryFailed |-> hist.queryFailed, failures |-> hist.failures,
     logged |-> hist.logged, updates |-> hist.updates,
     errors |-> l.errors, invoked |-> hist.invoked, emails |-> hist.emails,
     balance_calls |-> hist.balance_calls, exceptions |-> hist.exceptions]

RunRecord(w, outcome) == RunRecordOf(wk[w], h[w], outcome)

\* line 157 (or a propagated exception) seen by a direct caller
SaveReturn(w) ==
    /\ wk[w].pc \in {"saved", "raised"}
    /\ wk[w].caller = "direct"
    /\ runs' = Append(runs, RunRecord(w, IF wk[w].pc = "saved" THEN "returned" ELSE "raised"))
    /\ wk' = [wk EXCEPT ![w] = IdleWk]
    /\ UNCHANGED <<ledger, cards, h, credited, calls, faults>>
    /\ UNCHANGED apiVars

------------------------------------------------------------------------------
(* Person and the attachment rule of Group.add_transactions, models.py:65-124 *)

\* Person(name, email, account_numbers), with no transactions yet; `id` is the
\* identity of the object (Person defines no __eq__, so == is identity)
Person(id, name, email, account_numbers) ==
    [id |-> id, name |-> name, email |-> email,
     account_numbers |-> account_numbers, transactions |-> <<>>]

\* (defect variant: the account number is not looked at)
AttachesAnyAccount(t, p) ==
    /\ t.ignore = ""
    /\ t.category # "Other"

\* (defect variant: the category is not looked at)
AttachesAnyCategory(t, p) ==
    /\ t.account_number \in p.account_numbers
    /\ t.ignore = ""

\* models.py:119-123: the condition under which p.add_transaction(t) is called
Attaches(t, p) ==
    /\ t.account_number \in p.account_numbers
    /\ t.ignore = ""
    /\ t.category # "Other"

\* the member p after the loops of add_transactions over `transactions`:
\* Person.add_transaction appends, in the order of the list
WithTransactions(p, transactions) ==
    [p EXCEPT !.transactions = @ \o SelectSeq(transactions, LAMBDA t : Attaches(t, p))]

\* two members: account 1 is Alice's, account 2 is Bob's, account 3 is on
\* both lists
Members == <<Person(1, "Alice", "alice@example.com", {1, 3}),
             Person(2, "Bob", "bob@example.com", {2, 3})>>

------------------------------------------------------------------------------
(* process_queue_item, controller.py:149-242, and the card balance calls *)

\* get_credit_cards as the dict {c.account_number: c}; a failed read is
\* logged inside get_credit_cards and returns [], so the dict is empty
CardsByAccount(tbl, ok) ==
    IF ok THEN {tbl[rk] : rk \in DOMAIN tbl} ELSE {}

\* (defect variant: the reconciliation date is ignored)
SkippedNever(t, known) == FALSE

\* controller.py:201-210: the transaction is covered by a reconciliation
Skipped(t, known) ==
    \E c \in known :
        /\ c.AccountNumber = t.account_number
        /\ c.LastReconciled # None
        /\ DateLT(t.date, c.LastReconciled)

\* (defect variant: one item per transaction instead of one per account)
RECURSIVE CardUpdatesPerTransaction(_, _, _)
CardUpdatesPerTransaction(new_transactions, known, acc) ==
    IF new_transactions = <<>> THEN acc
    ELSE LET t == Head(new_transactions)
         IN  CardUpdatesPerTransaction(Tail(new_transactions), known,
                IF Skipped(t, known) THEN acc
                ELSE Append(acc, [account_number |-> t.account_number,
                                  delta |-> AmountValue(t.amount), txns |-> <<t>>]))

\* controller.py:198-215: card_updates as the list of its items, in
\* insertion order, each with the transactions summed into it
RECURSIVE CardUpdates(_, _, _)
CardUpdates(new_transactions, known, acc) ==
    IF new_transactions = <<>> THEN acc
    ELSE LET t == Head(new_transactions)
             at == {k \in 1..Len(acc) : acc[k].account_number = t.account_number}
             acc2 ==
                IF Skipped(t, known) THEN acc
                ELSE IF at = {}
                THEN Append(acc, [account_number |-> t.account_number,
                                  delta |-> AmountValue(t.amount), txns |-> <<t>>])
                ELSE [k \in 1..Len(acc) |->
                        IF k \in at
                        THEN [acc[k] EXCEPT !.delta = @ + AmountValue(t.amount),
                                            !.txns = Append(@, t)]
                        ELSE acc[k]]
         IN  CardUpdates(Tail(new_transactions), known, acc2)

\* the result of get_transactions(csv_content) for a file without bad rows
Parsed(T) == [raised |-> FALSE, transactions |-> T, errors |-> <<>>]

\* recipients = [p.email for p in members]
Recipients(members) == [k \in 1..Len(members) |-> members[k].email]

\* (defect variant: any row error stops the processing)
AnyRowFailed(parse) == parse.errors # <<>>

\* controller.py:174: errors and len(transactions) == 0
AllRowsFailed(parse) == parse.errors # <<>> /\ parse.transactions = <<>>

\* an invocation that ended before save_transactions
EndedEarly(w, parse, outcome, invoked, emails) ==
    /\ wk[w].pc = "idle"
    /\ runs' = Append(runs,
                  RunRecordOf([IdleWk EXCEPT !.transactions = parse.transactions,
                                             !.errors = parse.errors],
                              [NoHistory EXCEPT !.store0 = ledger, !.cards0 = cards,
                                                !.invoked = invoked, !.emails = emails],
                              outcome))
    /\ calls' = calls + 1
    /\ UNCHANGED <<ledger, cards, wk, h, credited, faults>>
    /\ UNCHANGED apiVars

\* the message is taken from the queue (controller.py:153-186): download,
\* parse (`parse` is what get_transactions did), people lookup; an exception
\* of the parser is re-raised (239-242); when every row failed the error
\* email is sent and the handler returns (174-180); otherwise
\* save_transactions is called
ProcessQueueItem(w, parse, limit) ==
    IF parse.raised
    THEN calls < limit /\ EndedEarly(w, parse, "raised", <<>>, <<>>)
    ELSE IF AllRowsFailed(parse)
    THEN /\ calls < limit
         /\ EndedEarly(w, parse, "returned", <<"send_error_email">>,
                       <<[kind |-> "error", to |-> Recipients(Members),
                          errors |-> parse.errors]>>)
    ELSE SaveBegin(w, parse.transactions, "queue", parse.errors, limit)

\* controller.py:187-216 after save_transactions returned: read the cards and
\* accumulate the per-account deltas
GetCreditCards(w, ok) ==
    /\ wk[w].pc = "saved"
    /\ wk[w].caller = "queue"
    /\ LET ups == CardUpdates(wk[w].new_transactions, CardsByAccount(cards, ok), <<>>)
       IN  wk' = [wk EXCEPT ![w].card_updates = ups,
                            ![w].u = 1,
                            ![w].pc = IF ups = <<>> THEN "email" ELSE "get_entity"]
    /\ h' = [h EXCEPT ![w].failures = IF ok THEN @ ELSE Append(@, "cards"),
                      ![w].logged = IF ok THEN @ ELSE Append(@, "error"),
                      ![w].invoked = Append(@, "get_credit_cards")]
    /\ faults' = IF ok THEN faults ELSE faults + 1
    /\ UNCHANGED <<ledger, cards, runs, credited, calls>>
    /\ UNCHANGED apiVars

\* return from update_card_balance: next item of card_updates, or the email
NextUpdate(l) ==
    IF l.u < Len(l.card_updates)
    THEN [l EXCEPT !.u = l.u + 1, !.pc = "get_entity", !.entity = None, !.cause = None]
    ELSE [l EXCEPT !.pc = "email", !.entity = None, !.cause = None]

\* str(account_number)
RowKeyOfAccount(account_number) == ToString(account_number)

\* controller.py:217-218 and database_service.py:454-456: the call
\* update_card_balance(acc_num, delta) for the current item of card_updates
\* reads the card by row key; a missing row or a failed read raises into the
\* fallback
GetEntity(w, ok) ==
    /\ wk[w].pc = "get_entity"
    /\ LET l == wk[w]
           row_key == RowKeyOfAccount(l.card_updates[l.u].account_number)
           found == ok /\ row_key \in DOMAIN cards
       IN  /\ wk' = [wk EXCEPT ![w] =
                        IF found
                        THEN [l EXCEPT !.pc = "update_entity", !.entity = cards[row_key]]
                        ELSE [l EXCEPT !.pc = "query_fallback",
                                       !.cause = IF ok THEN "not found" ELSE "get"]]
           /\ h' = [h EXCEPT ![w].failures = IF ok THEN @ ELSE Append(@, "get"),
                             ![w].invoked = Append(@, "update_card_balance"),
                             ![w].balance_calls =
                                Append(@, [account_number |-> l.card_updates[l.u].account_number,
                                           delta |-> l.card_updates[l.u].delta])]
    /\ faults' = IF ok THEN faults ELSE faults + 1
    /\ UNCHANGED <<ledger, cards, runs, credited, calls>>
    /\ UNCHANGED apiVars

\* update_entity(entity, mode=REPLACE) passes no etag and no match condition:
\* the write is accepted whatever version is stored
WriteAllowed(stored, read) == TRUE

\* the entity as written: the snapshot that was read, with the new balance
\* (float(new_bal) keeps the value of the small decimals used here)
WithDelta(entity, delta) == [entity EXCEPT !.CurrentBalance = @ + delta]

\* the stored row after an accepted replace; the service renews the etag
Replaced(tbl, entity) ==
    [tbl EXCEPT ![entity.RowKey] = [entity EXCEPT !.etag = tbl[entity.RowKey].etag + 1]]

\* database_service.py:459-463: write the balance read before plus the delta
UpdateEntity(w, ok) ==
    /\ wk[w].pc = "update_entity"
    /\ LET l == wk[w]
           up == l.card_updates[l.u]
           done == ok /\ WriteAllowed(cards[l.entity.RowKey], l.entity)
       IN  /\ cards' = IF done THEN Replaced(cards, WithDelta(l.entity, up.delta)) ELSE cards
           /\ credited' = IF done
                          THEN [credited EXCEPT ![l.entity.RowKey] = @ \o up.txns]
                          ELSE credited
           /\ wk' = [wk EXCEPT ![w] =
                        IF done THEN NextUpdate(l)
                        ELSE [l EXCEPT !.pc = "query_fallback", !.entity = None,
                                       !.cause = "update"]]
           /\ h' = [h EXCEPT ![w].failures = IF ok THEN @ ELSE Append(@, "update"),
                             ![w].updates = IF done
                                    THEN Append(@, [account_number |-> up.account_number,
                                                    delta |-> up.delta,
                                                    card |-> l.entity.RowKey])
                                    ELSE @]
    /\ faults' = IF ok THEN faults ELSE faults + 1
    /\ UNCHANGED <<ledger, runs, calls>>
    /\ UNCHANGED apiVars

\* (defect variant: the fallback query has no AccountNumber condition)
FallbackMatchesAll(tbl, account_number) == DOMAIN tbl

\* the rows matching "PartitionKey eq 'CREDIT_CARDS' and AccountNumber eq n"
FallbackMatches(tbl, account_number) ==
    {rk \in DOMAIN tbl : tbl[rk].AccountNumber = account_number}

\* database_service.py:466-473 and 485-496: look the card up by AccountNumber;
\* nothing found or a failed query is logged and the call returns
QueryFallback(w, ok) ==
    /\ wk[w].pc = "query_fallback"
    /\ LET l == wk[w]
           up == l.card_updates[l.u]
           entities == FallbackMatches(cards, up.account_number)
       IN  /\ wk' = [wk EXCEPT ![w] =
                        IF ok /\ entities # {}
                        THEN [l EXCEPT !.pc = "update_fallback",
                                       !.entity = cards[CHOOSE rk \in entities : TRUE]]
                        ELSE NextUpdate(l)]
           /\ h' = [h EXCEPT ![w].failures = IF ok THEN @ ELSE Append(@, "query_fallback"),
                             ![w].logged = IF ok /\ entities # {} THEN @ ELSE Append(@, "error")]
    /\ faults' = IF ok THEN faults ELSE faults + 1
    /\ UNCHANGED <<ledger, cards, runs, credited, calls>>
    /\ UNCHANGED apiVars

\* database_service.py:474-484 and 491-496: write in the fallback; a failure
\* is logged and the call returns
UpdateFallback(w, ok) ==
    /\ wk[w].pc = "update_fallback"
    /\ LET l == wk[w]
           up == l.card_updates[l.u]
           done == ok /\ WriteAllowed(cards[l.entity.RowKey], l.entity)
       IN  /\ cards' = IF done THEN Replaced(cards, WithDelta(l.entity, up.delta)) ELSE cards
           /\ credited' = IF done
                          THEN [credited EXCEPT ![l.entity.RowKey] = @ \o up.txns]
                          ELSE credited
           /\ wk' = [wk EXCEPT ![w] = NextUpdate(l)]
           /\ h' = [h EXCEPT ![w].failures = IF ok THEN @ ELSE Append(@, "update_fallback"),
                             ![w].logged = IF done THEN @ ELSE Append(@, "error"),
                             ![w].updates = IF done
                                    THEN Append(@, [account_number |-> up.account_number,
                                                    delta |-> up.delta,
                                                    card |-> l.entity.RowKey])
                                    ELSE @]
    /\ faults' = IF ok THEN faults ELSE faults + 1
    /\ UNCHANGED <<ledger, runs, calls>>
    /\ UNCHANGED apiVars

\* Group(members).add_transactions(transactions): the members afterwards
Grouped(members, transactions) ==
    [k \in 1..Len(members) |-> WithTransactions(members[k], transactions)]

\* controller.py:223-237: the parsed transactions are attached to the
\* members; when none attaches the handler returns, otherwise the summary,
\* rendered with the row errors, is sent; then the invocation ends
SendEmail(w) ==
    /\ wk[w].pc = "email"
    /\ LET members == Grouped(Members, wk[w].transactions)
           sent == \E k \in 1..Len(members) : members[k].transactions # <<>>
           hist == IF sent
                   THEN [h[w] EXCEPT !.invoked = Append(@, "send_email"),
                                     !.emails = <<[kind |-> "summary",
                                                   to |-> Recipients(members),
                                                   errors |-> wk[w].errors]>>]
                   ELSE h[w]
       IN  runs' = Append(runs, RunRecordOf(wk[w], hist, "returned"))
    /\ wk' = [wk EXCEPT ![w] = IdleWk]
    /\ UNCHANGED <<ledger, cards, h, credited, calls, faults>>
    /\ UNCHANGED apiVars

------------------------------------------------------------------------------
(* Inputs *)

A5 == Dec(5, 0)       \* Decimal("5")

Row(d, name, acct, amount) == Transaction(d, name, acct, amount, "Dining & Drinks", "")

\* two January rows and one February row; repeating a row gives literal
\* duplicates
SmallRows == {Row(Jan10, 1, 1, A5), Row(Jan20, 1, 1, A5), Row(Feb05, 1, 1, A5)}

LedgerInputs == SeqsUpTo(SmallRows, MaxLen)

\* n distinct January rows followed by one February row
BulkList(n) ==
    [k \in 1..(n + 1) |-> IF k <= n THEN Row(Jan10, k, 1, A5) ELSE Row(Feb05, 1, 1, A5)]

BulkInputs == {BulkList(BatchSize + BulkOver), BulkList(2 * BatchSize + BulkOver)}

------------------------------------------------------------------------------
(* Specifications *)

\* a store call may fail while the budget of failures lasts
MayFail(ok) == ok \/ faults < MaxFaults

\* direct calls of save_transactions with short lists
Next ==
    \/ \E T \in LedgerInputs : SaveBegin(1, T, "direct", <<>>, MaxCalls)
    \/ \E ok \in BOOLEAN : MayFail(ok) /\ QueryExisting(1, ok)
    \/ \E ok \in BOOLEAN : MayFail(ok) /\ SubmitTransaction(1, ok)
    \/ SaveReturn(1)

Spec == Init /\ [][Next]_vars

\* direct calls of save_transactions with lists longer than one batch
NextBulk ==
    \/ \E T \in BulkInputs : SaveBegin(1, T, "direct", <<>>, MaxBulkCalls)
    \/ \E ok \in BOOLEAN : QueryExisting(1, ok)
    \/ \E ok \in BOOLEAN : SubmitTransaction(1, ok)
    \/ SaveReturn(1)

SpecBulk == Init /\ [][NextBulk]_vars

\* rows before, on and after the reconciliation date of card 1, and a row of
\* card 2, which has no reconciliation date
IngestRows ==
    {Row(Jan10, 1, 1, A5), Row(Jan15, 1, 1, A5), Row(Jan20, 1, 1, A5),
     Row(Jan20, 1, 2, A5)}

IngestInputs == SeqsUpTo(IngestRows, MaxIngestLen)

\* queue messages handled one after the other by process_queue_item
NextIngest ==
    \/ \E T \in IngestInputs : ProcessQueueItem(1, Parsed(T), MaxCalls)
    \/ \E ok \in BOOLEAN : MayFail(ok) /\ QueryExisting(1, ok)
    \/ \E ok \in BOOLEAN : MayFail(ok) /\ SubmitTransaction(1, ok)
    \/ \E ok \in BOOLEAN : MayFail(ok) /\ GetCreditCards(1, ok)
    \/ \E ok \in BOOLEAN : MayFail(ok) /\ GetEntity(1, ok)
    \/ \E ok \in BOOLEAN : MayFail(ok) /\ UpdateEntity(1, ok)
    \/ \E ok \in BOOLEAN : MayFail(ok) /\ QueryFallback(1, ok)
    \/ \E ok \in BOOLEAN : MayFail(ok) /\ UpdateFallback(1, ok)
    \/ SendEmail(1)

SpecIngest == Init /\ [][NextIngest]_vars

\* two workers, one queue message each, no store failure
InitRace ==
    /\ InitStore
    /\ wk = [w \in {1, 2} |-> IdleWk]
    /\ h = [w \in {1, 2} |-> NoHistory]

\* two different rows of card 2, and a list with one of them twice
RaceInputs ==
    {<<Row(Jan20, 1, 2, A5)>>, <<Row(Jan20, 2, 2, A5)>>,
     <<Row(Jan20, 1, 2, A5), Row(Jan20, 1, 2, A5)>>}

NextRace ==
    \E w \in {1, 2} :
        \/ \E T \in RaceInputs : ProcessQueueItem(w, Parsed(T), MaxRaceCalls)
        \/ QueryExisting(w, TRUE)
        \/ SubmitTransaction(w, TRUE)
        \/ GetCreditCards(w, TRUE)
        \/ GetEntity(w, TRUE)
        \/ UpdateEntity(w, TRUE)
        \/ SendEmail(w)

SpecRace == InitRace /\ [][NextRace]_vars

------------------------------------------------------------------------------
(* get_savings and save_savings, database_service.py:176-300 *)

SummaryKey == <<"SUMMARY", 0, 0>>

\* row_key = f"ITEM_{uuid.uuid4()}": the k-th item of the call number `call`
\* gets a key no other item has
ItemKey(call, k) == <<"ITEM", call, k>>

IsItemKey(rk) == rk[1] = "ITEM"

\* rows of one partition
PartitionRows(tbl, pk) == {e \in tbl : e.PartitionKey = pk}

\* _create_savings_upserts: the SUMMARY upsert, then one create per item
CreateSavingsUpserts(pk, data, call) ==
    <<[op |-> "upsert",
       entity |-> [PartitionKey |-> pk, RowKey |-> SummaryKey,
                   props |-> <<"StartingBalance", data.startingBalance>>]]>>
    \o [k \in 1..Len(data.items) |->
          [op |-> "create",
           entity |-> [PartitionKey |-> pk, RowKey |-> ItemKey(call, k),
                       props |-> <<"Item", data.items[k].name, data.items[k].cost>>]]]

\* the rows of `existing` in the order the query returned them
RECURSIVE SeqOfSet(_)
SeqOfSet(S) ==
    IF S = {} THEN <<>>
    ELSE LET x == CHOOSE y \in S : TRUE IN <<x>> \o SeqOfSet(S \ {x})

\* (defect variant: the SUMMARY row is deleted with the items)
DeletableAll(existing) == existing

\* (defect variant: no existing row is deleted)
DeletableNone(existing) == {}

\* lines 224-231: the existing rows that are deleted
Deletable(existing) == {e \in existing : e.RowKey # SummaryKey}

\* lines 222-234: ("delete", entity) for the deletable rows, then the upserts
SavingsOperations(existing, pk, data, call) ==
    LET dels == SeqOfSet(Deletable(existing))
    IN  [k \in 1..Len(dels) |->
            [op |-> "delete",
             entity |-> [PartitionKey |-> dels[k].PartitionKey, RowKey |-> dels[k].RowKey,
                         props |-> <<"select">>]]]
        \o CreateSavingsUpserts(pk, data, call)

\* (defect variant: every operation is submitted on its own)
SavingsBatchSingle(operations, i) == SubSeq(operations, i + 1, i + 1)

\* lines 241-262: all operations when there are at most 100, else
\* operations[i : i + batch_size]
SavingsBatch(operations, i) ==
    IF Len(operations) <= SavingsBatchSize THEN operations
    ELSE SubSeq(operations, i + 1,
                IF i + SavingsBatchSize < Len(operations)
                THEN i + SavingsBatchSize ELSE Len(operations))

\* the store accepts a batch when every delete finds its row and every
\* create finds none
BatchAccepted(tbl, ops) ==
    \A k \in 1..Len(ops) :
        LET key == <<ops[k].entity.PartitionKey, ops[k].entity.RowKey>>
        IN  /\ ops[k].op = "delete" => key \in {<<e.PartitionKey, e.RowKey>> : e \in tbl}
            /\ ops[k].op = "create" => key \notin {<<e.PartitionKey, e.RowKey>> : e \in tbl}

\* the table after an accepted batch
BatchApplied(tbl, ops) ==
    {e \in tbl : <<e.PartitionKey, e.RowKey>> \notin KeysOfOps(ops)}
        \cup {ops[k].entity : k \in {n \in 1..Len(ops) : ops[n].op # "delete"}}

\* (defect variant: only item rows count as found)
FoundAnyItems(rows) == \E e \in rows : IsItemKey(e.RowKey)

\* found_any: the query returned at least one row
FoundAny(rows) == rows # {}

ItemsOfRows(rows) ==
    LET es == SeqOfSet({e \in rows : IsItemKey(e.RowKey)})
    IN  [k \in 1..Len(es) |-> [name |-> es[k].props[2], cost |-> es[k].props[3]]]

\* lines 176-203: None for a partition without rows, else the starting
\* balance of the SUMMARY row (0.0 without one) and the items in the order of
\* their row keys
GetSavingsResult(tbl, pk) ==
    LET rows == PartitionRows(tbl, pk)
        summary == {e \in rows : e.RowKey = SummaryKey}
    IN  IF ~FoundAny(rows) THEN [absent |-> TRUE, startingBalance |-> 0, items |-> <<>>]
        ELSE [absent |-> FALSE,
              startingBalance |->
                 IF summary = {} THEN 0 ELSE (CHOOSE e \in summary : TRUE).props[2],
              items |-> ItemsOfRows(rows)]

SavesLogged == Cardinality({k \in 1..Len(svlog) : svlog[k].kind = "save"})
GetsLogged == Cardinality({k \in 1..Len(svlog) : svlog[k].kind = "get"})

\* one get_savings(month, user) call: a single query
GetSavings(pk, limit) ==
    /\ GetsLogged < limit
    /\ svlog' = Append(svlog, [kind |-> "get", pk |-> pk,
                               during |-> sv.pc # "idle",
                               rows |-> PartitionRows(savings, pk),
                               result |-> GetSavingsResult(savings, pk)])
    /\ UNCHANGED <<keylog, savings, sv, group, parsed, upload>>
    /\ UNCHANGED ingestVars

\* save_savings(month, data, user) is entered
SaveSavings(pk, data, limit) ==
    /\ sv.pc = "idle"
    /\ SavesLogged < limit
    /\ sv' = [IdleSv EXCEPT !.pc = "sv_query", !.pk = pk, !.data = data,
                            !.uuid = Len(svlog) + 1, !.before = savings]
    /\ UNCHANGED <<keylog, savings, svlog, group, parsed, upload>>
    /\ UNCHANGED ingestVars

\* lines 214-237: the query of the existing rows (an error of the query
\* propagates to the caller) and the list of operations
SavingsQuery(ok) ==
    /\ sv.pc = "sv_query"
    /\ sv' = IF ok
             THEN LET ops == SavingsOperations(PartitionRows(savings, sv.pk),
                                               sv.pk, sv.data, sv.uuid)
                  IN  [sv EXCEPT !.operations = ops,
                                 !.pc = IF ops = <<>> THEN "sv_returned" ELSE "sv_submit"]
             ELSE [sv EXCEPT !.pc = "sv_raised", !.failures = Append(@, "query")]
    /\ faults' = IF ok THEN faults ELSE faults + 1
    /\ UNCHANGED <<keylog, savings, svlog, group, parsed, upload>>
    /\ UNCHANGED <<ledger, cards, wk, h, runs, credited, calls>>

\* (defect variant: the handler logs and the loop goes on)
OnSavingsSubmitErrorLog == "log"

\* lines 246-248 and 260-262: logger.error, then raise e
OnSavingsSubmitError == "raise"

\* lines 241-262: one submit_transaction; a batch commits as a whole or not
\* at all, and a failure is logged and raised
SavingsSubmit(ok) ==
    /\ sv.pc = "sv_submit"
    /\ LET batch == SavingsBatch(sv.operations, sv.i)
           done == ok /\ BatchAccepted(savings, batch)
           next == sv.i + Len(batch)
       IN  /\ savings' = IF done THEN BatchApplied(savings, batch) ELSE savings
           /\ sv' = [sv EXCEPT !.submits = Append(@, [ops |-> batch, ok |-> done]),
                               !.i = next,
                               !.failures = IF done THEN @ ELSE Append(@, "submit"),
                               !.pc = IF ~done /\ OnSavingsSubmitError = "raise"
                                      THEN "sv_raised"
                                      ELSE IF next < Len(sv.operations) THEN "sv_submit"
                                      ELSE "sv_returned"]
    /\ faults' = IF ok THEN faults ELSE faults + 1
    /\ UNCHANGED <<keylog, svlog, group, parsed, upload>>
    /\ UNCHANGED <<ledger, cards, wk, h, runs, credited, calls>>

\* save_savings returns None, or the error reaches the caller
SavingsReturn ==
    /\ sv.pc \in {"sv_returned", "sv_raised"}
    /\ svlog' = Append(svlog, [kind |-> "save", pk |-> sv.pk, data |-> sv.data,
                               outcome |-> IF sv.pc = "sv_returned" THEN "returned" ELSE "raised",
                               before |-> sv.before, after |-> savings,
                               operations |-> sv.operations, submits |-> sv.submits,
                               failures |-> sv.failures])
    /\ sv' = IdleSv
    /\ UNCHANGED <<keylog, savings, group, parsed, upload>>
    /\ UNCHANGED ingestVars

\* savings documents: a starting balance and a list of items
SavingsItems == {[name |-> "Rent", cost |-> 1500], [name |-> "Food", cost |-> 500]}

SavingsData ==
    {[startingBalance |-> b, items |-> its] :
        b \in {0, 1000}, its \in SeqsUpTo(SavingsItems, MaxSavingsItems)}

\* f"{user_id}_{month}" for one user and two months
SavingsPartitions == {<<"user", "2023-11">>, <<"user", "2023-12">>}

SavingsMayFail(ok) == ok \/ faults < MaxSavingsFaults

NextSavings ==
    \/ \E pk \in SavingsPartitions, data \in SavingsData : SaveSavings(pk, data, MaxSavingsCalls)
    \/ \E ok \in BOOLEAN : SavingsMayFail(ok) /\ SavingsQuery(ok)
    \/ \E ok \in BOOLEAN : SavingsMayFail(ok) /\ SavingsSubmit(ok)
    \/ SavingsReturn
    \/ \E pk \in SavingsPartitions : GetSavings(pk, MaxSavingsGets)

SpecSavings == Init /\ [][NextSavings]_vars

\* n distinct items
BulkItems(n) == [k \in 1..n |-> [name |-> ToString(k), cost |-> k]]

\* lists whose operations fill one batch exactly, or need two or three chunks
SavingsBulkSizes == {99, 100, 150, 200}

SavingsBulkData ==
    {[startingBalance |-> b, items |-> BulkItems(n)] : b \in {0, 1000}, n \in SavingsBulkSizes}

\* save_savings with long item lists; any store call may fail
NextSavingsBulk ==
    \/ \E pk \in SavingsPartitions, data \in SavingsBulkData :
            SaveSavings(pk, data, MaxSavingsBulkCalls)
    \/ \E ok \in BOOLEAN : SavingsQuery(ok)
    \/ \E ok \in BOOLEAN : SavingsSubmit(ok)
    \/ SavingsReturn

SpecSavingsBulk == Init /\ [][NextSavingsBulk]_vars

------------------------------------------------------------------------------
(* Group and Person, models.py:65-124 *)

\* Group.add_transactions(transactions); the loops have no raise statement
AddTransactions(transactions, limit) ==
    /\ Len(group.added) < limit
    /\ LET members == [k \in 1..Len(group.members) |->
                          WithTransactions(group.members[k], transactions)]
       IN  group' = [members |-> members, asked |-> group.asked,
                     added |-> Append(group.added,
                                 [transactions |-> transactions,
                                  before |-> group.members, after |-> members,
                                  raised |-> FALSE])]
    /\ UNCHANGED <<keylog, savings, sv, svlog, parsed, upload>>
    /\ UNCHANGED ingestVars

InitGroup ==
    /\ InitKeySavings
    /\ InitLedger
    /\ wk = [w \in {1} |-> IdleWk]
    /\ h = [w \in {1} |-> NoHistory]
    /\ group = [members |-> Members, added |-> <<>>, asked |-> <<>>]

\* transactions of an account of one member, of both, and of nobody, with
\* every ignore flag, in a category that counts and in OTHER
GroupRows ==
    {Transaction(Jan10, 1, acct, A5, category, ignore) :
        acct \in {1, 3, 9}, category \in {"Dining & Drinks", "Other"},
        ignore \in {"", "budget", "everything"}}

GroupInputs == SeqsUpTo(GroupRows, MaxGroupLen)

NextGroup == \E T \in GroupInputs : AddTransactions(T, MaxGroupCalls)

SpecGroup == InitGroup /\ [][NextGroup]_vars

------------------------------------------------------------------------------
(* Group and Person: the queries, models.py:85-106 and 126-168 *)

\* sum((t.amount for t in transactions), start=Decimal("0.00")), in hundredths
RECURSIVE SumOf(_)
SumOf(transactions) ==
    IF transactions = <<>> THEN 0
    ELSE AmountValue(Head(transactions).amount) + SumOf(Tail(transactions))

\* Person.get_expenses(category), models.py:97-106; category None sums all
PersonGetExpenses(p, category) ==
    IF p.transactions = <<>> THEN 0
    ELSE IF category = None THEN SumOf(p.transactions)
    ELSE SumOf(SelectSeq(p.transactions, LAMBDA t : t.category = category))

\* Group.get_expenses(), models.py:157-159: the sum over the members
RECURSIVE GroupGetExpenses(_)
GroupGetExpenses(members) ==
    IF members = <<>> THEN 0
    ELSE PersonGetExpenses(Head(members), None) + GroupGetExpenses(Tail(members))

\* `p in self.members`: list membership compares with ==, identity for Person
InMembers(members, p) == \E k \in 1..Len(members) : members[k].id = p.id

\* (defect variant: membership by name, email and account numbers)
MissingByFields(members, p1, p2) ==
    \E p \in {p1, p2} :
       ~\E k \in 1..Len(members) :
           /\ members[k].name = p.name
           /\ members[k].email = p.email
           /\ members[k].account_numbers = p.account_numbers

\* models.py:152 and 164: missing = [p for p in [p1, p2] if p not in self.members]
Missing(members, p1, p2) == \E p \in {p1, p2} : ~InMembers(members, p)

\* the outcome of a query: an exception or a returned value
Raised == [raised |-> TRUE, value |-> None]
Returned(value) == [raised |-> FALSE, value |-> value]

\* Group.get_expenses_difference(p1, p2, category), models.py:148-155
GetExpensesDifferenceResult(members, p1, p2, category) ==
    IF Missing(members, p1, p2) THEN Raised
    ELSE Returned(PersonGetExpenses(p1, category) - PersonGetExpenses(p2, category))

\* a Decimal scale factor as the fraction num / den
Fraction(num, den) == [num |-> num, den |-> den]

\* (defect variant: the share is taken of p2's total, not of the group's)
DebtValueOfPair(members, p1, p2, s) ==
    Fraction(s.num * (PersonGetExpenses(p1, None) + PersonGetExpenses(p2, None))
                - s.den * PersonGetExpenses(p2, None), s.den)

\* models.py:168: p1_scale_factor * self.get_expenses() - p1.get_expenses(),
\* in hundredths, as a fraction with the denominator of the scale factor
DebtValue(members, p1, p2, s) ==
    Fraction(s.num * GroupGetExpenses(members) - s.den * PersonGetExpenses(p1, None),
             s.den)

\* Group.get_debt(p1, p2, p1_scale_factor), models.py:161-168
GetDebtResult(members, p1, p2, s) ==
    IF Missing(members, p1, p2) THEN Raised
    ELSE Returned(DebtValue(members, p1, p2, s))

\* min() and max() of a non-empty set of dates
MinDate(dates) == CHOOSE d \in dates : \A e \in dates : ~DateLT(e, d)
MaxDate(dates) == CHOOSE d \in dates : \A e \in dates : ~DateLT(d, e)

DatesOf(transactions) == {transactions[n].date : n \in 1..Len(transactions)}

\* Person.get_oldest_transaction(), models.py:85-89
PersonGetOldestTransaction(p) ==
    IF p.transactions = <<>> THEN None ELSE MinDate(DatesOf(p.transactions))

\* Person.get_newest_transaction(), models.py:91-95
PersonGetNewestTransaction(p) ==
    IF p.transactions = <<>> THEN None ELSE MaxDate(DatesOf(p.transactions))

\* (defect variant: only the first member is asked)
OldestOfFirstMember(members) ==
    IF members = <<>> \/ members[1].transactions = <<>> THEN Raised
    ELSE Returned(PersonGetOldestTransaction(members[1]))

\* Group.get_oldest_transaction(), models.py:126-135
GetOldestTransactionResult(members) ==
    LET dates == {PersonGetOldestTransaction(members[k]) :
                     k \in {j \in 1..Len(members) :
                               PersonGetOldestTransaction(members[j]) # None}}
    IN  IF dates = {} THEN Raised ELSE Returned(MinDate(dates))

\* Group.get_newest_transaction(), models.py:137-146
GetNewestTransactionResult(members) ==
    LET dates == {PersonGetNewestTransaction(members[k]) :
                     k \in {j \in 1..Len(members) :
                               PersonGetNewestTransaction(members[j]) # None}}
    IN  IF dates = {} THEN Raised ELSE Returned(MaxDate(dates))

\* a query appends its arguments and its outcome to group.asked; no query
\* assigns to a member
Ask(limit, entry) ==
    /\ Len(group.asked) < limit
    /\ group' = [group EXCEPT !.asked = Append(@, entry)]
    /\ UNCHANGED <<keylog, savings, sv, svlog, parsed, upload>>
    /\ UNCHANGED ingestVars

GetExpensesDifference(p1, p2, category, limit) ==
    Ask(limit, [op |-> "get_expenses_difference", p1 |-> p1, p2 |-> p2,
                arg |-> category, members |-> group.members,
                out |-> GetExpensesDifferenceResult(group.members, p1, p2, category)])

GetDebt(p1, p2, s, limit) ==
    Ask(limit, [op |-> "get_debt", p1 |-> p1, p2 |-> p2,
                arg |-> s, members |-> group.members,
                out |-> GetDebtResult(group.members, p1, p2, s)])

GetOldestTransaction(limit) ==
    Ask(limit, [op |-> "get_oldest_transaction", p1 |-> None, p2 |-> None,
                arg |-> None, members |-> group.members,
                out |-> GetOldestTransactionResult(group.members)])

GetNewestTransaction(limit) ==
    Ask(limit, [op |-> "get_newest_transaction", p1 |-> None, p2 |-> None,
                arg |-> None, members |-> group.members,
                out |-> GetNewestTransactionResult(group.members)])

\* a third member, and a Person object that is no member but has Alice's
\* name, email and account numbers, and a transaction of its own
Members3 == Members \o <<Person(3, "Carol", "carol@example.com", {4})>>

Twin ==
    [Person(9, "Alice", "alice@example.com", {1, 3}) EXCEPT
        !.transactions = <<Transaction(Jan10, 1, 1, Dec(5, 0), "Groceries", "")>>]

\* the Person objects a caller can pass: the members as they are now, and Twin
Objects == SeqSet(group.members) \cup {Twin}

\* groups of no, two and three members
InitGroups ==
    /\ InitKeySavings
    /\ InitLedger
    /\ wk = [w \in {1} |-> IdleWk]
    /\ h = [w \in {1} |-> NoHistory]
    /\ \E members \in {<<>>, Members, Members3} :
          group = [members |-> members, added |-> <<>>, asked |-> <<>>]

\* attachable transactions of two dates, two amounts and two categories, of
\* Alice's, Bob's and Carol's accounts
ExpenseRows ==
    {Transaction(d, 1, acct, amount, category, "") :
        d \in {Jan10, Feb05}, acct \in {1, 2, 4},
        amount \in {Dec(5, 0), Dec(1001, 2)},
        category \in {"Dining & Drinks", "Groceries"}}

ExpenseInputs == SeqsUpTo(ExpenseRows, MaxExpenseLen)

ScaleFactors == {Fraction(1, 2), Fraction(1, 4)}

NextGroupQuery ==
    \/ \E T \in ExpenseInputs : AddTransactions(T, MaxExpenseAdds)
    \/ \E p1, p2 \in Objects :
          \E category \in {None, "Dining & Drinks", "Groceries"} :
             GetExpensesDifference(p1, p2, category, MaxAsks)
    \/ \E p1, p2 \in Objects : \E s \in ScaleFactors : GetDebt(p1, p2, s, MaxAsks)
    \/ GetOldestTransaction(MaxAsks)
    \/ GetNewestTransaction(MaxAsks)

SpecGroupQuery == InitGroups /\ [][NextGroupQuery]_vars

\* one call of _generate_row_key(t, occurrence_index)
GenerateRowKeyCall(t, occurrence_index) ==
    /\ Len(keylog) < MaxKeyCalls
    /\ keylog' = Append(keylog, [t |-> t, occurrence_index |-> occurrence_index,
                                 key |-> GenerateRowKey(t, occurrence_index)])
    /\ UNCHANGED <<savings, sv, svlog, group, parsed, upload>>
    /\ UNCHANGED ingestVars

\* transactions that differ in every field the key reads and in the two it
\* does not; Decimal("5") and Decimal("5.0") are equal amounts of different text
KeyInputs ==
    {Transaction(d, name, 1, amount, category, ignore) :
        d \in {Jan10, Jan20}, name \in {1, 2}, amount \in {Dec(5, 0), Dec(50, 1)},
        category \in {"Dining & Drinks", "Groceries"}, ignore \in {"", "budget"}}

KeyIndices == {0, 1}

\* calls of _generate_row_key
NextKey == \E t \in KeyInputs, idx \in KeyIndices : GenerateRowKeyCall(t, idx)

SpecKey == Init /\ [][NextKey]_vars

------------------------------------------------------------------------------
(* Properties of save_transactions *)

\* a finished call in which every query and every chunk submission succeeded
Clean(r) ==
    /\ r.outcome = "returned"
    /\ r.queryFailed = {}
    /\ \A k \in 1..Len(r.submits) : r.submits[k].ok

RowKeysOf(rows) == [k \in 1..Len(rows) |-> rows[k].rk]

InPartition(rows, pk) == SelectSeq(rows, LAMBDA x : x.pk = pk)

\* s is t with some elements removed (relative order kept)
IsSubsequence(s, t) ==
    \E f \in [1..Len(s) -> 1..Len(t)] :
        /\ \A k \in 1..Len(s) : t[f[k]] = s[k]
        /\ \A a, b \in 1..Len(s) : a < b => f[a] < f[b]

\* C1: after a save of T in which every query and submission succeeded, a
\* second save of the same T computes the same row keys, returns no newly
\* inserted transaction and leaves the stored rows unchanged.
C1_IdempotentReingestion ==
    \A i, j \in 1..Len(runs) :
        (i < j /\ runs[i].input = runs[j].input /\ Clean(runs[i]) /\ Clean(runs[j]))
        => /\ RowKeysOf(runs[j].keyed) = RowKeysOf(runs[i].keyed)
           /\ runs[j].result = <<>>
           /\ runs[j].store1 = runs[j].store0

C1_Witness ==
    /\ Len(runs) = 2
    /\ runs[1].input = runs[2].input
    /\ Len(runs[1].input) = 3
    /\ Cardinality(SeqSet(PartitionOrder(runs[1].input))) = 2
    /\ Clean(runs[1]) /\ Clean(runs[2])
    /\ Len(runs[1].result) = 3

\* C2: in every execution, failed queries included, a finished save reports a
\* transaction as newly inserted exactly when its row key was not stored in
\* its partition when the call began.
C2_ReportsExactlyTheUnstored ==
    \A i \in 1..Len(runs) :
        \A k \in 1..Len(runs[i].keyed) :
            LET x == runs[i].keyed[k]
            IN  (x \in SeqSet(runs[i].fresh))
                    <=> (x.rk \notin ExistingKeys(runs[i].store0, x.pk))

\* the row key given to the n-th transaction of the input of run r
KeyOfInput(r, n) ==
    LET pk == PartitionKey(r.input[n])
        m == Cardinality({j \in 1..n : PartitionKey(r.input[j]) = pk})
    IN  InPartition(r.keyed, pk)[m].rk

\* C6: the k-th transaction of a signature (in input order) is keyed with
\* occurrence index k-1, so the rows of one call have pairwise distinct keys,
\* and all rows of a partition that stored nothing are reported new.
C6_OccurrenceIndex ==
    \A i \in 1..Len(runs) :
        LET r == runs[i]
        IN  r.outcome = "returned" =>
            /\ Len(r.keyed) = Len(r.input)
            /\ \A n \in 1..Len(r.input) :
                 KeyOfInput(r, n) =
                    GenerateRowKey(r.input[n],
                        Cardinality({j \in 1..(n - 1) :
                            Signature(r.input[j]) = Signature(r.input[n])}))
            /\ \A n, m \in 1..Len(r.input) :
                 n # m => KeyOfInput(r, n) # KeyOfInput(r, m)
            /\ \A pk \in SeqSet(PartitionOrder(r.input)) :
                 ExistingKeys(r.store0, pk) = {}
                    => InPartition(r.fresh, pk) = InPartition(r.keyed, pk)

C6_Witness ==
    \E i \in 1..Len(runs) :
        /\ runs[i].outcome = "returned"
        /\ runs[i].store0 = {}
        /\ runs[i].input = <<Row(Jan10, 1, 1, A5), Row(Jan10, 1, 1, A5)>>
        /\ RowKeysOf(runs[i].fresh) =
              <<GenerateRowKey(Row(Jan10, 1, 1, A5), 0),
                GenerateRowKey(Row(Jan10, 1, 1, A5), 1)>>

\* C7 as stated: the returned list keeps the relative order of the input.
C7_OrderPreservingSubset ==
    \A i \in 1..Len(runs) : IsSubsequence(runs[i].result, runs[i].input)

\* position of a partition among the partitions of the input
PartitionRank(ts, pk) ==
    CHOOSE k \in 1..Len(PartitionOrder(ts)) : PartitionOrder(ts)[k] = pk

\* the rows of each month are contiguous in ts
MonthsContiguous(ts) ==
    \A a, b, c \in 1..Len(ts) :
        (a < b /\ b < c /\ PartitionKey(ts[a]) = PartitionKey(ts[c]))
            => PartitionKey(ts[b]) = PartitionKey(ts[a])

\* C7 (amended): the returned list is a sub-list of the input grouped by
\* month: months in order of first appearance in the input, input order kept
\* within a month; it keeps the input order whenever the input does not
\* interleave months.
C7_OrderPreservingWithinMonth ==
    \A i \in 1..Len(runs) :
        LET r == runs[i]
        IN  /\ \A a, b \in 1..Len(r.result) :
                 a < b => PartitionRank(r.input, PartitionKey(r.result[a]))
                            <= PartitionRank(r.input, PartitionKey(r.result[b]))
            /\ \A pk \in SeqSet(PartitionOrder(r.input)) :
                 IsSubsequence(PartitionList(r.result, pk), PartitionList(r.input, pk))
            /\ MonthsContiguous(r.input) => IsSubsequence(r.result, r.input)

C7_Witness ==
    \E i \in 1..Len(runs) :
        /\ runs[i].input = <<Row(Jan10, 1, 1, A5), Row(Feb05, 1, 1, A5), Row(Jan10, 1, 1, A5)>>
        /\ runs[i].result = <<Row(Jan10, 1, 1, A5), Row(Jan10, 1, 1, A5), Row(Feb05, 1, 1, A5)>>
        /\ Clean(runs[i])

\* C10: a save of S into an empty ledger in which every submission succeeds
\* leaves exactly Len(S) stored rows.
C10_StoredCountEqualsLen ==
    \A i \in 1..Len(runs) :
        (runs[i].store0 = {} /\ Clean(runs[i]))
            => Cardinality(runs[i].store1) = Len(runs[i].input)

C10_Witness ==
    \E i \in 1..Len(runs) :
        /\ runs[i].store0 = {} /\ Clean(runs[i])
        /\ runs[i].input = <<Row(Jan10, 1, 1, A5), Row(Feb05, 1, 1, A5), Row(Jan10, 1, 1, A5)>>
        /\ Cardinality(runs[i].store1) = 3

------------------------------------------------------------------------------
(* Properties of the chunked submission (SpecBulk) *)

RECURSIVE FlattenOps(_)
FlattenOps(submits) ==
    IF submits = <<>> THEN <<>>
    ELSE FlattenOps(SubSeq(submits, 1, Len(submits) - 1)) \o submits[Len(submits)].ops

\* number of chunks of n operations
ChunksOf(n) == (n + 99) \div 100

RECURSIVE ExpectedChunks(_, _)
ExpectedChunks(fresh, pks) ==
    IF pks = <<>> THEN 0
    ELSE ChunksOf(Len(InPartition(fresh, Head(pks)))) + ExpectedChunks(fresh, Tail(pks))

C9_BatchShape ==
    \A w \in DOMAIN h : \A k \in 1..Len(h[w].submits) :
        LET sb == h[w].submits[k]
        IN  /\ Len(sb.ops) >= 1
            /\ Len(sb.ops) <= 100
            /\ \A n \in 1..Len(sb.ops) :
                 /\ sb.ops[n].op = "upsert"
                 /\ sb.ops[n].entity.PartitionKey = sb.pk
                 /\ sb.ops[n].entity.PartitionKey =
                        <<"default", sb.ops[n].entity.Date[1], sb.ops[n].entity.Date[2]>>

\* one call submits a full batch of 100, a shorter one and one for another month
C9_Witness ==
    \E w \in DOMAIN h :
        /\ \E k \in 1..Len(h[w].submits) : Len(h[w].submits[k].ops) = 100
        /\ \E k \in 1..Len(h[w].submits) : Len(h[w].submits[k].ops) = BulkOver
        /\ \E k \in 1..Len(h[w].submits) : h[w].submits[k].pk = <<"default", 2024, 2>>

------------------------------------------------------------------------------
(* Properties of the balance update (SpecIngest, SpecRace) *)

RECURSIVE SumAmounts(_)
SumAmounts(ts) ==
    IF ts = <<>> THEN 0 ELSE AmountValue(Head(ts).amount) + SumAmounts(Tail(ts))

\* t is of the card's account and not dated before its reconciliation date
Eligible(t, card) ==
    /\ t.account_number = card.AccountNumber
    /\ (card.LastReconciled = None \/ ~DateLT(t.date, card.LastReconciled))

EligibleOf(ts, card) == SelectSeq(ts, LAMBDA t : Eligible(t, card))

RECURSIVE SumDeltas(_, _)
SumDeltas(updates, rk) ==
    IF updates = <<>> THEN 0
    ELSE (IF Head(updates).card = rk THEN Head(updates).delta ELSE 0)
            + SumDeltas(Tail(updates), rk)

\* C3: an input whose first processing lost a chunk submission and whose
\* re-delivery met no failure is stored once per transaction, and every card
\* balance has advanced by each eligible transaction of the input exactly once.
C3_RedeliveryAppliesOnce ==
    (/\ Len(runs) = 2
     /\ runs[1].input = runs[2].input
     /\ runs[1].failures = <<"submit">>
     /\ runs[2].failures = <<>>)
    => /\ Cardinality(ledger) = Len(runs[2].input)
       /\ \A k \in 1..Len(runs[2].keyed) :
             runs[2].keyed[k].rk \in ExistingKeys(ledger, runs[2].keyed[k].pk)
       /\ \A rk \in DOMAIN cards :
             cards[rk].CurrentBalance =
                InitCards[rk].CurrentBalance
                    + SumAmounts(EligibleOf(runs[2].input, InitCards[rk]))

\* C4: in every execution, failed store reads included, a card's balance is
\* its initial balance plus the amounts of transactions that were reported
\* newly inserted and are dated on or after the card's last_reconciled date.
C4_BalanceOnlyFromEligible ==
    \A rk \in DOMAIN cards :
        /\ cards[rk].CurrentBalance =
              InitCards[rk].CurrentBalance + SumAmounts(credited[rk])
        /\ \A k \in 1..Len(credited[rk]) : Eligible(credited[rk][k], cards[rk])

\* C5: when both workers have finished, every card balance is its initial
\* balance plus all the deltas that the update_card_balance calls wrote.
C5_NoLostUpdate ==
    (Len(runs) = 2 /\ \A w \in DOMAIN wk : wk[w].pc = "idle")
    => \A rk \in DOMAIN cards :
          cards[rk].CurrentBalance =
             InitCards[rk].CurrentBalance
                + SumDeltas(runs[1].updates, rk) + SumDeltas(runs[2].updates, rk)

\* C11: when no store call fails, an ingestion that reports exactly one newly
\* inserted transaction, of amount a on a card's account, leaves that card's
\* balance unchanged if the transaction is dated before the card's
\* last_reconciled date, and raises it by exactly a if it is dated on or after
\* that date or the card has no last_reconciled date.
C11_ReconciliationCutoff ==
    \A i \in 1..Len(runs) :
        LET r == runs[i]
        IN  (r.failures = <<>> /\ Len(r.result) = 1) =>
            \A rk \in DOMAIN r.cards0 :
                LET c == r.cards0[rk]
                    t == r.result[1]
                IN  c.AccountNumber = t.account_number =>
                    r.cards1[rk].CurrentBalance =
                        c.CurrentBalance +
                        (IF c.LastReconciled # None /\ DateLT(t.date, c.LastReconciled)
                         THEN 0 ELSE AmountValue(t.amount))

\* one transaction dated before the cutoff of card 1 left the balance alone,
\* then one dated on the cutoff raised it by its amount
C11_Witness ==
    /\ Len(runs) = 2
    /\ runs[1].failures = <<>> /\ runs[2].failures = <<>>
    /\ runs[1].result = <<Row(Jan10, 1, 1, A5)>>
    /\ runs[1].cards1["1"].CurrentBalance = runs[1].cards0["1"].CurrentBalance
    /\ runs[2].result = <<Row(Jan15, 1, 1, A5)>>
    /\ runs[2].cards1["1"].CurrentBalance =
          runs[2].cards0["1"].CurrentBalance + AmountValue(A5)

------------------------------------------------------------------------------
(* Properties of concurrent ingestions (SpecRace) *)

CountIn(seq, x) == Cardinality({k \in 1..Len(seq) : seq[k] = x})

RECURSIVE ReportedCount(_, _)
ReportedCount(rs, t) ==
    IF rs = <<>> THEN 0 ELSE CountIn(Head(rs).result, t) + ReportedCount(Tail(rs), t)

StoredKeys(tbl) == {<<e.PartitionKey, e.RowKey>> : e \in tbl}

AllIdle == \A w \in DOMAIN wk : wk[w].pc = "idle"

\* C12: a transaction is written into a card balance once per ingestion that
\* reported it newly inserted, and an ingestion that began after the row was
\* stored does not report it; two ingestions that overlap can both report it,
\* and then its amount is applied twice (the state of C12_Witness).
C12_AppliedOncePerReport ==
    /\ \A i \in 1..Len(runs) :
          \A k \in 1..Len(runs[i].keyed) :
              LET x == runs[i].keyed[k]
              IN  <<x.pk, x.rk>> \in StoredKeys(runs[i].store0)
                      => x \notin SeqSet(runs[i].fresh)
    /\ AllIdle =>
          \A rk \in DOMAIN cards :
              \A t \in SeqSet(credited[rk]) :
                  CountIn(credited[rk], t) = ReportedCount(runs, t)

\* both ingestions of the same one-row list reported the row new; it is
\* stored once and card 2 has received its amount twice
C12_Witness ==
    /\ AllIdle
    /\ Len(runs) = 2
    /\ runs[1].input = <<Row(Jan20, 1, 2, A5)>>
    /\ runs[2].input = runs[1].input
    /\ runs[1].result = runs[1].input
    /\ runs[2].result = runs[2].input
    /\ Cardinality(ledger) = 1
    /\ cards["2"].CurrentBalance = InitCards["2"].CurrentBalance + 2 * AmountValue(A5)

\* the keys that one ingestion of ts stores
SingleIngestionKeys(ts) ==
    {<<PartitionKey(ts[n]),
       GenerateRowKey(ts[n],
          Cardinality({j \in 1..(n - 1) : Signature(ts[j]) = Signature(ts[n])}))>> :
        n \in 1..Len(ts)}

\* C13: the table never holds two records under one (partition, row key),
\* and when ingestions of the same input have finished, however their query
\* and submit steps interleaved, the stored keys are those of one ingestion.
C13_ConcurrentUpsertHarmless ==
    /\ Cardinality(ledger) = Cardinality(StoredKeys(ledger))
    /\ (AllIdle /\ Len(runs) >= 1 /\ \A i \in 1..Len(runs) : runs[i].input = runs[1].input)
          => StoredKeys(ledger) = SingleIngestionKeys(runs[1].input)

\* two overlapping ingestions of a list with a duplicate both upserted both
\* rows; two records are stored
C13_Witness ==
    /\ AllIdle
    /\ Len(runs) = 2
    /\ runs[1].input = <<Row(Jan20, 1, 2, A5), Row(Jan20, 1, 2, A5)>>
    /\ runs[2].input = runs[1].input
    /\ Len(runs[1].submits) = 1 /\ Len(runs[2].submits) = 1
    /\ Len(runs[1].submits[1].ops) = 2 /\ Len(runs[2].submits[1].ops) = 2
    /\ Cardinality(ledger) = 2

------------------------------------------------------------------------------
(* Properties of _generate_row_key (SpecKey) *)

\* the five fields that enter the hashed string, as they are formatted
KeyFields(c) ==
    <<c.t.date, c.t.name, c.t.amount, c.t.account_number, c.occurrence_index>>

\* C14: two calls whose transactions agree on date, description, amount and
\* account number and whose occurrence indices agree return the same key,
\* whatever the categories and ignore flags (so do two calls on the same
\* transaction); two calls on the same transaction with different occurrence
\* indices return different keys.
C14_KeyDependsOnFiveFields ==
    \A i, j \in 1..Len(keylog) :
        /\ KeyFields(keylog[i]) = KeyFields(keylog[j]) => keylog[i].key = keylog[j].key
        /\ (keylog[i].t = keylog[j].t
                /\ keylog[i].occurrence_index # keylog[j].occurrence_index)
             => keylog[i].key # keylog[j].key

\* same five fields with another category and another flag: same key; the
\* same transaction with the other index: another key
C14_Witness ==
    /\ Len(keylog) = 3
    /\ KeyFields(keylog[1]) = KeyFields(keylog[2])
    /\ keylog[1].t.category # keylog[2].t.category
    /\ keylog[1].t.ignore # keylog[2].t.ignore
    /\ keylog[1].key = keylog[2].key
    /\ keylog[3].t = keylog[1].t
    /\ keylog[3].occurrence_index # keylog[1].occurrence_index
    /\ keylog[3].key # keylog[1].key

------------------------------------------------------------------------------
(* Properties of the savings calls (SpecSavings) *)

Saves == {k \in 1..Len(svlog) : svlog[k].kind = "save"}
Gets == {k \in 1..Len(svlog) : svlog[k].kind = "get"}

\* rows is exactly the content that `data` describes: one SUMMARY row with
\* its starting balance and, as a multiset of (name, cost), its items
IsNewContent(rows, data) ==
    /\ \E e \in rows :
          e.RowKey = SummaryKey /\ e.props = <<"StartingBalance", data.startingBalance>>
    /\ Cardinality(rows) = 1 + Len(data.items)
    /\ \A e \in rows : e.RowKey = SummaryKey \/ IsItemKey(e.RowKey)
    /\ \A k \in 1..Len(data.items) :
          Cardinality({e \in rows : IsItemKey(e.RowKey)
                          /\ e.props = <<"Item", data.items[k].name, data.items[k].cost>>})
             = CountIn(data.items, data.items[k])

OtherPartitionsKept(before, after, pk) ==
    {e \in before : e.PartitionKey # pk} = {e \in after : e.PartitionKey # pk}

\* C15: a save_savings call of at most 100 operations submits them all in
\* one batch; if the call fails the error reaches the caller and the
\* partition holds exactly its previous rows, if it returns the partition
\* holds exactly the new content, and at no moment of the call does it hold
\* anything else.
C15_SingleAtomicBatch ==
    /\ \A k \in Saves :
          LET r == svlog[k]
          IN  Len(r.operations) <= 100 =>
              /\ Len(r.submits) <= 1
              /\ \A n \in 1..Len(r.submits) : r.submits[n].ops = r.operations
              /\ r.failures # <<>> <=> r.outcome = "raised"
              /\ r.outcome = "raised"
                    => PartitionRows(r.after, r.pk) = PartitionRows(r.before, r.pk)
              /\ r.outcome = "returned"
                    => IsNewContent(PartitionRows(r.after, r.pk), r.data)
              /\ OtherPartitionsKept(r.before, r.after, r.pk)
    /\ (sv.pc # "idle" /\ Len(sv.operations) <= 100) =>
          \/ PartitionRows(savings, sv.pk) = PartitionRows(sv.before, sv.pk)
          \/ IsNewContent(PartitionRows(savings, sv.pk), sv.data)

\* a save over a stored document with items lost its batch: the error was
\* raised and the stored document is as before
C15_Witness ==
    /\ Len(svlog) = 2
    /\ svlog[1].kind = "save" /\ svlog[1].outcome = "returned"
    /\ Len(svlog[1].data.items) = 2
    /\ svlog[2].kind = "save" /\ svlog[2].pk = svlog[1].pk
    /\ svlog[2].data # svlog[1].data
    /\ svlog[2].failures = <<"submit">> /\ svlog[2].outcome = "raised"
    /\ Len(svlog[2].submits) = 1 /\ Len(svlog[2].submits[1].ops) >= 3
    /\ savings = svlog[1].after

\* the items of a get_savings result are those of data, as a multiset
SameItems(result, data) ==
    /\ Len(result.items) = Len(data.items)
    /\ \A k \in 1..Len(data.items) :
          CountIn(result.items, data.items[k]) = CountIn(data.items, data.items[k])

\* C16: get_savings on the table a successful save_savings left, and every
\* get_savings call that follows it directly (no other save running), returns the saved starting
\* balance and exactly the saved items, with nothing of an earlier save.
C16_FullReplace ==
    \A k \in Saves :
        LET r == svlog[k]
            res == GetSavingsResult(r.after, r.pk)
        IN  r.outcome = "returned" =>
            /\ ~res.absent
            /\ res.startingBalance = r.data.startingBalance
            /\ SameItems(res, r.data)
            /\ (/\ k < Len(svlog)
                /\ svlog[k + 1].kind = "get" /\ svlog[k + 1].pk = r.pk
                /\ ~svlog[k + 1].during)
                  => /\ ~svlog[k + 1].result.absent
                     /\ svlog[k + 1].result.startingBalance = r.data.startingBalance
                     /\ SameItems(svlog[k + 1].result, r.data)

\* a second save replaced a document of two items by one of another item,
\* and the get_savings after it returned only that one
C16_Witness ==
    /\ Len(svlog) = 3
    /\ svlog[1].kind = "save" /\ svlog[1].outcome = "returned"
    /\ svlog[1].data.items = <<[name |-> "Rent", cost |-> 1500], [name |-> "Rent", cost |-> 1500]>>
    /\ svlog[2].kind = "save" /\ svlog[2].outcome = "returned"
    /\ svlog[2].pk = svlog[1].pk
    /\ svlog[2].data = [startingBalance |-> 1000, items |-> <<[name |-> "Food", cost |-> 500]>>]
    /\ svlog[3].kind = "get" /\ svlog[3].pk = svlog[1].pk /\ ~svlog[3].during
    /\ svlog[3].result = [absent |-> FALSE, startingBalance |-> 1000,
                          items |-> <<[name |-> "Food", cost |-> 500]>>]

\* C18: the operations of a save_savings call are, in this order, one delete
\* per row that the partition held other than SUMMARY, one upsert of the
\* SUMMARY row, and one create per submitted item in the order of the items;
\* no delete names the SUMMARY row and no two operations name the same row.
C18_OperationsOrder ==
    \A k \in Saves :
        LET r == svlog[k]
            ops == r.operations
            old == {e \in PartitionRows(r.before, r.pk) : e.RowKey # SummaryKey}
            nd == Cardinality(old)
        IN  r.failures # <<"query">> =>
            /\ Len(ops) = nd + 1 + Len(r.data.items)
            /\ \A n \in 1..nd : ops[n].op = "delete"
            /\ {ops[n].entity.RowKey : n \in 1..nd} = {e.RowKey : e \in old}
            /\ ops[nd + 1].op = "upsert"
            /\ ops[nd + 1].entity.RowKey = SummaryKey
            /\ ops[nd + 1].entity.props = <<"StartingBalance", r.data.startingBalance>>
            /\ \A n \in 1..Len(r.data.items) :
                  /\ ops[nd + 1 + n].op = "create"
                  /\ IsItemKey(ops[nd + 1 + n].entity.RowKey)
                  /\ ops[nd + 1 + n].entity.props =
                        <<"Item", r.data.items[n].name, r.data.items[n].cost>>
            /\ \A n \in 1..Len(ops) :
                  /\ ops[n].entity.PartitionKey = r.pk
                  /\ ops[n].op = "delete" => ops[n].entity.RowKey # SummaryKey
            /\ \A n, m \in 1..Len(ops) :
                  n # m => ops[n].entity.RowKey # ops[m].entity.RowKey

\* a save of one item over a stored document of two: delete, delete, upsert,
\* create
C18_Witness ==
    \E k \in Saves :
        /\ Cardinality(PartitionRows(svlog[k].before, svlog[k].pk)) = 3
        /\ Len(svlog[k].data.items) = 1
        /\ [n \in 1..Len(svlog[k].operations) |-> svlog[k].operations[n].op]
              = <<"delete", "delete", "upsert", "create">>

\* C19: a get_savings call returns the absent value exactly when the
\* partition holds no row, and on the table that a successful save_savings
\* left, also one with no items, it returns a structure.
C19_AbsentOnlyWhenNoRows ==
    /\ \A k \in Gets : svlog[k].result.absent <=> svlog[k].rows = {}
    /\ \A k \in Saves :
          svlog[k].outcome = "returned"
             => /\ ~GetSavingsResult(svlog[k].after, svlog[k].pk).absent
                /\ (/\ k < Len(svlog)
                    /\ svlog[k + 1].kind = "get" /\ svlog[k + 1].pk = svlog[k].pk
                    /\ ~svlog[k + 1].during)
                      => ~svlog[k + 1].result.absent

\* the first save of a month has no items; the get_savings after it returns
\* the empty document, not the absent value
C19_Witness ==
    /\ Len(svlog) = 2
    /\ svlog[1].kind = "save" /\ svlog[1].outcome = "returned"
    /\ svlog[1].before = {} /\ svlog[1].data.items = <<>>
    /\ svlog[2].kind = "get" /\ svlog[2].pk = svlog[1].pk /\ ~svlog[2].during
    /\ svlog[2].result = [absent |-> FALSE,
                          startingBalance |-> svlog[1].data.startingBalance,
                          items |-> <<>>]

------------------------------------------------------------------------------
(* Properties of the chunked savings submission (SpecSavingsBulk) *)

\* the number of operations of each submitted chunk
ChunkSizes(submits) == [n \in 1..Len(submits) |-> Len(submits[n].ops)]

\* a save of 150 items into a partition without rows whose first chunk
\* was committed
Saved150(r) ==
    /\ Len(r.data.items) = 150
    /\ PartitionRows(r.before, r.pk) = {}
    /\ Len(r.submits) >= 1 /\ r.submits[1].ok

FirstChunkKept(r) ==
    \A n \in 1..Len(r.submits[1].ops) : r.submits[1].ops[n].entity \in r.after

\* C17 as stated: the two chunks hold 100 and 50 operations.
C17_ChunksOf100And50 ==
    \A k \in Saves :
        Saved150(svlog[k]) =>
            /\ ChunkSizes(svlog[k].submits) = <<100, 50>>
            /\ ~svlog[k].submits[2].ok => FirstChunkKept(svlog[k])

\* C17 (amended): the 150 items make 151 operations (the SUMMARY upsert and
\* 150 creates), submitted as exactly 2 chunks of 100 and 51 operations; when
\* the submission of the second chunk fails the error is raised and the 100
\* writes of the first chunk remain in the store.
C17_ChunksOf100And51 ==
    \A k \in Saves :
        Saved150(svlog[k]) =>
            /\ Len(svlog[k].operations) = 151
            /\ ChunkSizes(svlog[k].submits) = <<100, 51>>
            /\ ~svlog[k].submits[2].ok =>
                  /\ svlog[k].outcome = "raised"
                  /\ FirstChunkKept(svlog[k])
                  /\ Cardinality(PartitionRows(svlog[k].after, svlog[k].pk)) = 100

C17_Witness ==
    \E k \in Saves :
        /\ Saved150(svlog[k])
        /\ Len(svlog[k].submits) = 2
        /\ ~svlog[k].submits[2].ok
        /\ svlog[k].outcome = "raised"
        /\ Cardinality(PartitionRows(savings, svlog[k].pk)) = 100

------------------------------------------------------------------------------
(* Properties of Group.add_transactions (SpecGroup) *)

\* C20: a call of add_transactions appends to each member's list exactly the
\* transactions of the input, in input order, whose account number is in the
\* member's account numbers, whose ignore flag is NOTHING and whose category
\* is not OTHER; a transaction flagged BUDGET or EVERYTHING or of category
\* OTHER is appended to no member's list.
C20_AttachCondition ==
    \A c \in 1..Len(group.added) :
        LET call == group.added[c]
        IN  /\ Len(call.after) = Len(call.before)
            /\ \A k \in 1..Len(call.before) :
                  LET p == call.before[k]
                  IN  call.after[k].transactions =
                         p.transactions \o
                            SelectSeq(call.transactions,
                                LAMBDA t : /\ t.account_number \in p.account_numbers
                                           /\ t.ignore = ""
                                           /\ t.category # "Other")
            /\ \A n \in 1..Len(call.transactions) :
                  LET t == call.transactions[n]
                  IN  (t.ignore \in {"budget", "everything"} \/ t.category = "Other")
                        => \A k \in 1..Len(call.before) :
                              CountIn(call.after[k].transactions, t)
                                 = CountIn(call.before[k].transactions, t)

\* of a Dining transaction and an OTHER transaction of account 1, both not
\* ignored, only the first was appended, and only to Alice
C20_Witness ==
    \E c \in 1..Len(group.added) :
        LET call == group.added[c]
        IN  /\ call.transactions =
                  <<Transaction(Jan10, 1, 1, A5, "Dining & Drinks", ""),
                    Transaction(Jan10, 1, 1, A5, "Other", "")>>
            /\ call.after[1].name = "Alice"
            /\ call.after[1].transactions =
                  call.before[1].transactions
                     \o <<Transaction(Jan10, 1, 1, A5, "Dining & Drinks", "")>>
            /\ call.after[2].transactions = call.before[2].transactions

\* the number of copies of t that the call appended to all members together
RECURSIVE AttachedCopies(_, _, _)
AttachedCopies(call, t, k) ==
    IF k = 0 THEN 0
    ELSE (CountIn(call.after[k].transactions, t)
            - CountIn(call.before[k].transactions, t))
         + AttachedCopies(call, t, k - 1)

\* C21: one call of add_transactions attaches each transaction of its
\* argument to at most one member, also when two members list the same
\* account number: the members together gain no more copies of a transaction
\* than the argument holds.
C21_AtMostOneMember ==
    \A c \in 1..Len(group.added) :
        LET call == group.added[c]
        IN  \A t \in SeqSet(call.transactions) :
               AttachedCopies(call, t, Len(call.after)) <= CountIn(call.transactions, t)

\* C22: a transaction whose account number is in no member's account numbers
\* is appended to no member's list, and the call raises no error.
C22_UnknownAccountDropped ==
    \A c \in 1..Len(group.added) :
        LET call == group.added[c]
        IN  /\ ~call.raised
            /\ \A t \in SeqSet(call.transactions) :
                  (\A k \in 1..Len(call.before) :
                        t.account_number \notin call.before[k].account_numbers)
                     => \A k \in 1..Len(call.before) :
                           CountIn(call.after[k].transactions, t)
                              = CountIn(call.before[k].transactions, t)
            /\ (\A n \in 1..Len(call.transactions) :
                  \A k \in 1..Len(call.before) :
                     call.transactions[n].account_number
                        \notin call.before[k].account_numbers)
                  => call.after = call.before

\* a second call, after Alice got a transaction, was given a Dining
\* transaction of account 9 that is not ignored, and left both lists as they
\* were
C22_Witness ==
    \E c \in 1..Len(group.added) :
        LET call == group.added[c]
        IN  /\ call.transactions = <<Transaction(Jan10, 1, 9, A5, "Dining & Drinks", "")>>
            /\ call.before[1].transactions # <<>>
            /\ call.after = call.before
            /\ ~call.raised

------------------------------------------------------------------------------
(* Properties of the queries of Group (SpecGroupQuery) *)

\* p is one of the member objects of the group
IsMemberObject(members, p) == \E k \in 1..Len(members) : members[k].id = p.id

C23_Outcome ==
    \A n \in 1..Len(group.asked) :
        LET a == group.asked[n]
        IN  a.op \in {"get_expenses_difference", "get_debt"} =>
              /\ (~IsMemberObject(a.members, a.p1) \/ ~IsMemberObject(a.members, a.p2))
                    => a.out.raised
              /\ (/\ a.op = "get_expenses_difference"
                  /\ IsMemberObject(a.members, a.p1)
                  /\ IsMemberObject(a.members, a.p2))
                    => /\ ~a.out.raised
                       /\ a.out.value = PersonGetExpenses(a.p1, a.arg)
                                           - PersonGetExpenses(a.p2, a.arg)

\* a step that answers a query leaves the members as they were
C23_Frame == (group'.asked # group.asked) => (group'.members = group.members)

\* C23: get_expenses_difference and get_debt raise, and change no member's
\* transactions, whenever p1 or p2 is not one of the group's member objects,
\* even when a member has the same name, email and account numbers; when both
\* are members, get_expenses_difference(p1, p2, c) is p1.get_expenses(c)
\* minus p2.get_expenses(c).
C23_MembershipError == [](C23_Outcome) /\ [][C23_Frame]_vars

\* get_debt was asked for Alice, who has a transaction, and for an object
\* that is no member but has Alice's name, email and account numbers: it
\* raised
C23_Witness ==
    \E n \in 1..Len(group.asked) :
        LET a == group.asked[n]
        IN  /\ a.op = "get_debt"
            /\ Len(a.members) = 2
            /\ a.p1 = a.members[1]
            /\ a.p1.transactions # <<>>
            /\ ~IsMemberObject(a.members, a.p2)
            /\ a.p2.name = a.p1.name
            /\ a.p2.email = a.p1.email
            /\ a.p2.account_numbers = a.p1.account_numbers
            /\ a.out.raised
            /\ group.members = a.members

\* the total of the amounts attached to p, in hundredths
TotalOf(p) == SumAmounts(p.transactions)

\* the sum of the totals of all members
RECURSIVE TotalOfAll(_)
TotalOfAll(members) ==
    IF members = <<>> THEN 0 ELSE TotalOf(Head(members)) + TotalOfAll(Tail(members))

\* C24: for members p1 and p2, get_debt(p1, p2, s) is s times the sum of all
\* members' totals minus p1's total; it is negative when p1 paid more than
\* the share s; in a group of the two members p1 and p2 with s = 1/2 it is
\* half of (p2's total minus p1's total), and get_debt(p1, p2) and
\* get_debt(p2, p1) add up to zero.
C24_DebtFormula ==
    \A n \in 1..Len(group.asked) :
        LET a == group.asked[n]
            s == a.arg
            all == TotalOfAll(a.members)
        IN  (/\ a.op = "get_debt"
             /\ IsMemberObject(a.members, a.p1)
             /\ IsMemberObject(a.members, a.p2))
              => /\ ~a.out.raised
                 /\ a.out.value.den = s.den
                 /\ a.out.value.num = s.num * all - s.den * TotalOf(a.p1)
                 /\ (s.den * TotalOf(a.p1) > s.num * all) => a.out.value.num < 0
                 /\ (Len(a.members) = 2 /\ a.p1.id # a.p2.id /\ s = Fraction(1, 2))
                       => /\ a.out.value.num = TotalOf(a.p2) - TotalOf(a.p1)
                          /\ LET back == GetDebtResult(a.members, a.p2, a.p1, s)
                             IN  /\ ~back.raised
                                 /\ back.value.den = a.out.value.den
                                 /\ back.value.num + a.out.value.num = 0

\* in the group of Alice and Bob, Alice was charged 10.01 and Bob 5.00, and
\* get_debt(Alice, Bob, 1/2) returned -5.01 / 2
C24_Witness ==
    \E n \in 1..Len(group.asked) :
        LET a == group.asked[n]
        IN  /\ a.op = "get_debt"
            /\ Len(a.members) = 2
            /\ a.p1 = a.members[1]
            /\ a.p2 = a.members[2]
            /\ a.arg = Fraction(1, 2)
            /\ TotalOf(a.p1) = 1001
            /\ TotalOf(a.p2) = 500
            /\ ~a.out.raised
            /\ a.out.value = Fraction(-501, 2)

\* the dates of all transactions attached to the members
AllDates(members) ==
    UNION {DatesOf(members[k].transactions) : k \in 1..Len(members)}

\* C25: get_oldest_transaction and get_newest_transaction return the minimum
\* and the maximum date over the attached transactions of all members,
\* ignoring members that have none, and raise exactly when no member has a
\* transaction, which includes the group with no members.
C25_OldestNewest ==
    \A n \in 1..Len(group.asked) :
        LET a == group.asked[n]
            dates == AllDates(a.members)
        IN  a.op \in {"get_oldest_transaction", "get_newest_transaction"} =>
              /\ a.out.raised <=> (dates = {})
              /\ (Len(a.members) = 0) => a.out.raised
              /\ (~a.out.raised /\ a.op = "get_oldest_transaction")
                    => /\ a.out.value \in dates
                       /\ \A d \in dates : ~DateLT(d, a.out.value)
              /\ (~a.out.raised /\ a.op = "get_newest_transaction")
                    => /\ a.out.value \in dates
                       /\ \A d \in dates : ~DateLT(a.out.value, d)

\* of three members the first has no transaction, the second one of
\* 5 February and the third one of 10 January: the oldest is 10 January
C25_Witness ==
    \E n \in 1..Len(group.asked) :
        LET a == group.asked[n]
        IN  /\ a.op = "get_oldest_transaction"
            /\ Len(a.members) = 3
            /\ a.members[1].transactions = <<>>
            /\ DatesOf(a.members[2].transactions) = {Feb05}
            /\ DatesOf(a.members[3].transactions) = {Jan10}
            /\ ~a.out.raised
            /\ a.out.value = Jan10

------------------------------------------------------------------------------
(* parse_date, utils.py:16-26 *)

\* a run of characters of a date string: `w` decimal digits of value `v`;
\* w = 0 stands for text that is not a number
Num(v, w) == [v |-> v, w |-> w]

\* a date string: three runs and the two characters between them; `pad`
\* says that white space surrounds it
DateStr(a, s1, b, s2, c) == [a |-> a, s1 |-> s1, b |-> b, s2 |-> s2, c |-> c, pad |-> FALSE]

\* %Y is four digits; %m is 1..12 and %d is 1..31, each of one or two digits
\* (one digit only for 1..9); datetime has no year 0
MatchesDirective(directive, x) ==
    CASE directive = "Y" -> x.w = 4 /\ x.v >= 1
      [] directive = "m" -> (x.w = 2 /\ x.v \in 1..12) \/ (x.w = 1 /\ x.v \in 1..9)
      [] directive = "d" -> (x.w = 2 /\ x.v \in 1..31) \/ (x.w = 1 /\ x.v \in 1..9)

IsLeap(y) == (y % 4 = 0 /\ y % 100 # 0) \/ y % 400 = 0

DaysIn(y, m) ==
    IF m = 2 THEN (IF IsLeap(y) THEN 29 ELSE 28)
    ELSE IF m \in {4, 6, 9, 11} THEN 30 ELSE 31

\* a format as its separator and the directives of its three fields
Format(sep, f1, f2, f3) == [sep |-> sep, fields |-> <<f1, f2, f3>>]

\* (defect variant: day/month is tried before month/day)
DateFormatsDayFirst ==
    <<Format("-", "Y", "m", "d"), Format("/", "d", "m", "Y"),
      Format("/", "m", "d", "Y"), Format("/", "Y", "m", "d")>>

\* utils.py:16: ["%Y-%m-%d", "%m/%d/%Y", "%d/%m/%Y", "%Y/%m/%d"]
DATE_FORMATS ==
    <<Format("-", "Y", "m", "d"), Format("/", "m", "d", "Y"),
      Format("/", "d", "m", "Y"), Format("/", "Y", "m", "d")>>

\* the value of the run of s that format fmt reads with `directive`
FieldOf(fmt, s, directive) ==
    LET parts == <<s.a, s.b, s.c>>
        i == CHOOSE k \in 1..3 : fmt.fields[k] = directive
    IN  parts[i].v

\* datetime.strptime(s, fmt) succeeds: the whole string matches the format
\* and the day exists in the month
Strptime(s, fmt) ==
    /\ ~s.pad
    /\ s.s1 = fmt.sep
    /\ s.s2 = fmt.sep
    /\ MatchesDirective(fmt.fields[1], s.a)
    /\ MatchesDirective(fmt.fields[2], s.b)
    /\ MatchesDirective(fmt.fields[3], s.c)
    /\ FieldOf(fmt, s, "d") <= DaysIn(FieldOf(fmt, s, "Y"), FieldOf(fmt, s, "m"))

\* datetime.strptime(s, fmt).date() as <<year, month, day>>
DateOf(s, fmt) == <<FieldOf(fmt, s, "Y"), FieldOf(fmt, s, "m"), FieldOf(fmt, s, "d")>>

\* parse_date(date_str): the first format of DATE_FORMATS that parses wins;
\* ValueError when none does
ParseDate(s) ==
    LET good == {k \in 1..Len(DATE_FORMATS) : Strptime(s, DATE_FORMATS[k])}
    IN  IF good = {} THEN [raised |-> TRUE, date |-> None]
        ELSE LET first == CHOOSE k \in good : \A j \in good : k <= j
             IN  [raised |-> FALSE, date |-> DateOf(s, DATE_FORMATS[first])]

\* one call of parse_date
ParseDateCall(s, limit) ==
    /\ Len(parsed) < limit
    /\ parsed' = Append(parsed, [op |-> "parse_date", input |-> s, out |-> ParseDate(s)])
    /\ UNCHANGED <<keylog, savings, sv, svlog, group, upload>>
    /\ UNCHANGED ingestVars

\* runs "01", "02", "04", "13", "29", "31", "25", "2", "2024", "2025" and "x"
DateRuns ==
    {Num(1, 2), Num(2, 2), Num(4, 2), Num(13, 2), Num(29, 2), Num(31, 2),
     Num(25, 2), Num(2, 1), Num(2024, 4), Num(2025, 4), Num(0, 0)}

\* every string of three such runs separated by "-" or "/", bare or padded
DateStrings ==
    {[DateStr(a, s1, b, s2, c) EXCEPT !.pad = pad] :
        a \in DateRuns, b \in DateRuns, c \in DateRuns,
        s1 \in {"-", "/"}, s2 \in {"-", "/"}, pad \in BOOLEAN}

NextDate == \E s \in DateStrings : ParseDateCall(s, MaxDateCalls)

SpecDate == Init /\ [][NextDate]_vars

------------------------------------------------------------------------------
(* Properties of parse_date (SpecDate) *)

\* the runs y, m, d are a four-digit year, a month and a day of that month
IsCalendarDate(y, m, d) ==
    /\ y.w = 4 /\ y.v >= 1
    /\ m.w \in {1, 2} /\ m.v \in 1..12 /\ (m.w = 1 => m.v <= 9)
    /\ d.w \in {1, 2} /\ d.v >= 1 /\ (d.w = 1 => d.v <= 9)
    /\ d.v <= (CASE m.v = 2 -> (IF y.v % 4 = 0 /\ (y.v % 100 # 0 \/ y.v % 400 = 0)
                                THEN 29 ELSE 28)
                 [] m.v \in {4, 6, 9, 11} -> 30
                 [] OTHER -> 31)

Dashed(s) == ~s.pad /\ s.s1 = "-" /\ s.s2 = "-"
Slashed(s) == ~s.pad /\ s.s1 = "/" /\ s.s2 = "/"

\* C29: parse_date returns the date of the first of YYYY-MM-DD, MM/DD/YYYY,
\* DD/MM/YYYY, YYYY/MM/DD that the string matches: a string valid as both
\* MM/DD/YYYY and DD/MM/YYYY is read as month/day, the DD/MM reading is used
\* only when the MM/DD reading is not a valid date, and a string that matches
\* no format raises.
C29_FirstFormatWins ==
    \A n \in 1..Len(parsed) :
        LET call == parsed[n]
            s == call.input
        IN  call.op = "parse_date" =>
              IF Dashed(s) /\ IsCalendarDate(s.a, s.b, s.c)
              THEN ~call.out.raised /\ call.out.date = <<s.a.v, s.b.v, s.c.v>>
              ELSE IF Slashed(s) /\ IsCalendarDate(s.c, s.a, s.b)
              THEN ~call.out.raised /\ call.out.date = <<s.c.v, s.a.v, s.b.v>>
              ELSE IF Slashed(s) /\ IsCalendarDate(s.c, s.b, s.a)
              THEN ~call.out.raised /\ call.out.date = <<s.c.v, s.b.v, s.a.v>>
              ELSE IF Slashed(s) /\ IsCalendarDate(s.a, s.b, s.c)
              THEN ~call.out.raised /\ call.out.date = <<s.a.v, s.b.v, s.c.v>>
              ELSE call.out.raised

\* "01/02/2025" was parsed as 2 January 2025
C29_Witness ==
    \E n \in 1..Len(parsed) :
        /\ parsed[n].op = "parse_date"
        /\ parsed[n].input = DateStr(Num(1, 2), "/", Num(2, 2), "/", Num(2025, 4))
        /\ ~parsed[n].out.raised
        /\ parsed[n].out.date = <<2025, 1, 2>>

------------------------------------------------------------------------------
(* to_transaction and get_transactions, utils.py:29-125 *)

Columns == {"Date", "Name", "Account Number", "Amount", "Category", "Ignored From"}

\* str.strip() on the sample texts: these are the ones with white space
\* around them
StripText(v) ==
    CASE v = "  " -> ""
      [] v = " Tea " -> "Tea"
      [] v = " Date " -> "Date"
      [] OTHER -> v

\* str.strip() on a date string
StripDate(s) == [s EXCEPT !.pad = FALSE]

\* a field of more characters than csv.field_size_limit() (131072)
Oversize == "x * 200000"

\* the fields a line was written with, by column
CsvCells(d, name, acct, amount, category, ignored) ==
    [c \in Columns |->
        CASE c = "Date" -> d
          [] c = "Name" -> name
          [] c = "Account Number" -> acct
          [] c = "Amount" -> amount
          [] c = "Category" -> category
          [] c = "Ignored From" -> ignored]

\* the lines of a file: a line of white space, the line of column names, and
\* a data line that holds `n` fields, the first n columns of the header
BlankLine == [kind |-> "blank", names |-> <<>>, cells |-> <<>>, n |-> 0]
NamesLine(names) == [kind |-> "names", names |-> names, cells |-> <<>>, n |-> Len(names)]
DataLine(cells, n) == [kind |-> "row", names |-> <<>>, cells |-> cells, n |-> n]

\* int(s) succeeds
IsInt(s) == s \in {"1", "2", "9"}
IntOf(s) == CASE s = "1" -> 1 [] s = "2" -> 2 [] s = "9" -> 9

\* Decimal(s) succeeds
IsDecimal(s) == s \in {"0", "5", "5.0", "10.01"}
DecimalOf(s) ==
    CASE s = "0" -> Dec(0, 0) [] s = "5" -> Dec(5, 0) [] s = "5.0" -> Dec(50, 1)
      [] s = "10.01" -> Dec(1001, 2)

\* models.py:25-35: the values of Category
Categories ==
    {"Dining & Drinks", "Groceries", "Pets", "Bills & Utilities", "Shared Purchases",
     "Shared Subscriptions", "Travel & Vacation", "Other"}

\* utils.py:75-79: an unknown or missing category becomes OTHER
CategoryOf(present, v) == IF present /\ v \in Categories THEN v ELSE "Other"

\* (defect variant: an unknown flag becomes NOTHING)
IgnoredFromOrNothing(v) ==
    IF v \in {"", "budget", "everything"} THEN [raised |-> FALSE, value |-> v]
    ELSE [raised |-> FALSE, value |-> ""]

\* utils.py:82-89: IgnoredFrom(v) raises ValueError for any other text
IgnoredFromOf(v) ==
    IF v \in {"", "budget", "everything"} THEN [raised |-> FALSE, value |-> v]
    ELSE [raised |-> TRUE, value |-> v]

\* the two returns of to_transaction
RowOk(t) == [ok |-> TRUE, transaction |-> t, error |-> None]
RowFailed(error) == [ok |-> FALSE, transaction |-> None, error |-> error]

\* the columns of the reader: the header names, stripped (utils.py:115-116)
FieldNames(header) == [i \in 1..Len(header) |-> StripText(header[i])]

\* to_transaction(row) for the row csv.DictReader makes of `line` under the
\* field names `header`: a column beyond the fields of the line holds None,
\* and None.strip() raises AttributeError
ToTransaction(header, line) ==
    LET cols == SeqSet(header)
        Has(c) == c \in cols
        Text(c, default) == IF Has(c) THEN StripText(line.cells[c]) ELSE default
    IN  IF line.n < Len(header)
        THEN RowFailed("Unexpected error: row is not a valid dictionary")
        ELSE IF ~Has("Date") THEN RowFailed("Missing 'Date' field")
        ELSE IF ParseDate(StripDate(line.cells["Date"])).raised
        THEN RowFailed("Date does not match any supported format.")
        ELSE IF ~Has("Name") THEN RowFailed("Missing 'Name' field")
        ELSE IF ~IsInt(Text("Account Number", ""))
        THEN RowFailed("Invalid or missing 'Account Number'")
        ELSE IF ~IsDecimal(Text("Amount", "0"))
        THEN RowFailed("Invalid or missing 'Amount'")
        ELSE IF IgnoredFromOf(Text("Ignored From", "")).raised
        THEN RowFailed("Invalid 'Ignored From' value")
        ELSE RowOk(Transaction(ParseDate(StripDate(line.cells["Date"])).date,
                               Text("Name", ""),
                               IntOf(Text("Account Number", "")),
                               DecimalOf(Text("Amount", "0")),
                               CategoryOf(Has("Category"), Text("Category", "")),
                               IgnoredFromOf(Text("Ignored From", "")).value))

\* (defect variant: rows are counted from 0)
RowErrorFromZero(i, error) == [row |-> i - 1, reason |-> error]

\* f"Row {i}: {error}"
RowError(i, error) == [row |-> i, reason |-> error]

\* the reader raises csv.Error on a line with a field beyond the size limit
FieldTooLarge(header, line) ==
    \E i \in 1..Len(header) :
        /\ i <= line.n
        /\ header[i] # "Date"
        /\ line.cells[header[i]] = Oversize

\* enumerate(rows, start=1) with the outcome of to_transaction
Numbered(header, rows) ==
    [i \in 1..Len(rows) |-> [i |-> i, r |-> ToTransaction(header, rows[i])]]

TransactionsIn(numbered) ==
    LET good == SelectSeq(numbered, LAMBDA x : x.r.ok)
    IN  [k \in 1..Len(good) |-> good[k].r.transaction]

ErrorsIn(numbered) ==
    LET bad == SelectSeq(numbered, LAMBDA x : ~x.r.ok)
    IN  [k \in 1..Len(bad) |-> RowError(bad[k].i, bad[k].r.error)]

\* get_transactions(content): the lines of white space are dropped, the first
\* line left is the header; nothing catches the csv.Error of the reader
GetTransactions(content) ==
    LET lines == SelectSeq(content, LAMBDA l : l.kind # "blank")
    IN  IF lines = <<>>
        THEN [raised |-> FALSE, transactions |-> <<>>, errors |-> <<>>]
        ELSE LET header == FieldNames(Head(lines).names)
                 rows == Tail(lines)
                 numbered == Numbered(header, rows)
             IN  IF \E i \in 1..Len(rows) : FieldTooLarge(header, rows[i])
                 THEN [raised |-> TRUE, transactions |-> <<>>, errors |-> <<>>]
                 ELSE [raised |-> FALSE,
                       transactions |-> TransactionsIn(numbered),
                       errors |-> ErrorsIn(numbered)]

\* one call of get_transactions
GetTransactionsCall(content, limit) ==
    /\ Len(parsed) < limit
    /\ parsed' = Append(parsed, [op |-> "get_transactions", input |-> content,
                                 out |-> GetTransactions(content)])
    /\ UNCHANGED <<keylog, savings, sv, svlog, group, upload>>
    /\ UNCHANGED ingestVars

\* "2025-01-02", "01/02/2025", " 2025-01-02 " and "13/13/2025"
IsoDate == DateStr(Num(2025, 4), "-", Num(1, 2), "-", Num(2, 2))
SlashDate == DateStr(Num(1, 2), "/", Num(2, 2), "/", Num(2025, 4))
PaddedDate == [IsoDate EXCEPT !.pad = TRUE]
NoDate == DateStr(Num(13, 2), "/", Num(13, 2), "/", Num(2025, 4))

GoodCells == CsvCells(IsoDate, "Coffee", "1", "5", "Groceries", "")

\* well-formed lines, lines with one bad field each, a line with an empty
\* description, a line shorter and one longer than the header, a line with an
\* oversize field, and a line of white space
CsvLines ==
    {DataLine(GoodCells, 6),
     DataLine(CsvCells(SlashDate, " Tea ", "2", "5.0", "Dining & Drinks", "budget"), 6),
     DataLine(CsvCells(PaddedDate, "Coffee", "1", "10.01", "Nope", "everything"), 6),
     DataLine(CsvCells(IsoDate, "  ", "1", "5", "Groceries", ""), 6),
     DataLine(CsvCells(NoDate, "Coffee", "1", "5", "Groceries", ""), 6),
     DataLine(CsvCells(IsoDate, "Coffee", "abc", "5", "Groceries", ""), 6),
     DataLine(CsvCells(IsoDate, "Coffee", "1", "abc", "Groceries", ""), 6),
     DataLine(CsvCells(IsoDate, "Coffee", "1", "5", "Groceries", "bogus"), 6),
     DataLine(CsvCells(IsoDate, "Coffee", "1", "5", "Groceries", "Budget"), 6),
     DataLine(GoodCells, 3),
     DataLine(GoodCells, 8),
     DataLine(CsvCells(IsoDate, Oversize, "1", "5", "Groceries", ""), 6),
     BlankLine}

\* the full header, the same with white space around a name, and headers
\* without the optional columns, without Date and without Name
CsvHeaders ==
    {<<"Date", "Name", "Account Number", "Amount", "Category", "Ignored From">>,
     <<" Date ", "Name", "Account Number", "Amount", "Category", "Ignored From">>,
     <<"Date", "Name", "Account Number">>,
     <<"Name", "Account Number", "Amount">>,
     <<"Date", "Account Number", "Amount">>}

\* the empty file, and files of a header and up to MaxCsvLines lines
CsvContents ==
    {<<>>} \cup
    {<<NamesLine(header)>> \o body :
        header \in CsvHeaders, body \in SeqsUpTo(CsvLines, MaxCsvLines)}

NextCsv == \E content \in CsvContents : GetTransactionsCall(content, MaxCsvCalls)

SpecCsv == Init /\ [][NextCsv]_vars

------------------------------------------------------------------------------
(* Properties of get_transactions (SpecCsv) *)

\* the data rows of a file: its lines that are not blank, without the header
DataRows(content) ==
    LET lines == SelectSeq(content, LAMBDA l : l.kind # "blank")
    IN  IF lines = <<>> THEN <<>> ELSE Tail(lines)

HeaderOf(content) ==
    LET lines == SelectSeq(content, LAMBDA l : l.kind # "blank")
    IN  IF lines = <<>> THEN <<>> ELSE FieldNames(Head(lines).names)

\* the row numbers named by the errors of a call
ErrorRows(out) == {out.errors[k].row : k \in 1..Len(out.errors)}

\* every data row is answered once: the errors name distinct rows in
\* increasing order, and the transactions are those of the other rows, in the
\* order of the rows
RowsAccountedFor(call) ==
    LET rows == DataRows(call.input)
        out == call.out
        others == SelectSeq([i \in 1..Len(rows) |-> i], LAMBDA i : i \notin ErrorRows(out))
    IN  /\ Len(out.transactions) + Len(out.errors) = Len(rows)
        /\ ErrorRows(out) \subseteq 1..Len(rows)
        /\ \A j, k \in 1..Len(out.errors) : j < k => out.errors[j].row < out.errors[k].row
        /\ Len(others) = Len(out.transactions)
        /\ \A k \in 1..Len(others) :
              LET r == ToTransaction(HeaderOf(call.input), rows[others[k]])
              IN  r.ok /\ r.transaction = out.transactions[k]
        /\ \A k \in 1..Len(out.errors) :
              ~ToTransaction(HeaderOf(call.input), rows[out.errors[k].row]).ok

\* C26: get_transactions never aborts on a malformed row: every non-blank
\* data row yields exactly one of a transaction or an error 'Row n: reason',
\* n being its 1-based position among the non-blank data rows; the
\* transactions come in input order, and transactions plus errors are as many
\* as the non-blank data rows.
C26_NeverAborts ==
    \A n \in 1..Len(parsed) :
        parsed[n].op = "get_transactions" =>
            /\ ~parsed[n].out.raised
            /\ RowsAccountedFor(parsed[n])

\* C27: every transaction returned by get_transactions has a description
\* that is not empty: a row whose Name is empty after trimming gives a row
\* error.
C27_DescriptionNotEmpty ==
    \A n \in 1..Len(parsed) :
        parsed[n].op = "get_transactions" =>
            \A k \in 1..Len(parsed[n].out.transactions) :
                parsed[n].out.transactions[k].name # ""

\* the text of column c in a data row, trimmed
Trimmed(row, c) == StripText(row.cells[c])

\* C28: in a call that returns, a row whose 'Ignored From' text is not the
\* empty string, 'budget' or 'everything' is named by a row error and gives no
\* transaction, so the call returns as many transactions as there are other
\* rows without an error, and every returned ignore-flag is one that a row
\* of the file carries.
C28_InvalidIgnoredFromRejected ==
    \A n \in 1..Len(parsed) :
        LET call == parsed[n]
            rows == DataRows(call.input)
            header == HeaderOf(call.input)
            bad == {i \in 1..Len(rows) :
                       /\ "Ignored From" \in SeqSet(header)
                       /\ rows[i].n >= Len(header)
                       /\ Trimmed(rows[i], "Ignored From") \notin {"", "budget", "everything"}}
        IN  (call.op = "get_transactions" /\ ~call.out.raised) =>
               /\ bad \subseteq ErrorRows(call.out)
               /\ Len(call.out.transactions) <= Len(rows) - Cardinality(bad)
               /\ \A k \in 1..Len(call.out.transactions) :
                     /\ call.out.transactions[k].ignore \in {"", "budget", "everything"}
                     /\ "Ignored From" \in SeqSet(header) =>
                          \E i \in 1..Len(rows) :
                             /\ i \notin bad
                             /\ Trimmed(rows[i], "Ignored From")
                                   = call.out.transactions[k].ignore

\* a file of a good row and a row with 'Ignored From' = "bogus" gave one
\* transaction and the error of row 2
C28_Witness ==
    \E n \in 1..Len(parsed) :
        LET call == parsed[n]
        IN  /\ call.op = "get_transactions"
            /\ DataRows(call.input) =
                  <<DataLine(GoodCells, 6),
                    DataLine(CsvCells(IsoDate, "Coffee", "1", "5", "Groceries", "bogus"), 6)>>
            /\ Len(HeaderOf(call.input)) = 6
            /\ ~call.out.raised
            /\ Len(call.out.transactions) = 1
            /\ call.out.errors = <<RowError(2, "Invalid 'Ignored From' value")>>

\* every call of get_transactions that returns has answered every data row
\* once
ReturnedCallsAccountForRows ==
    \A n \in 1..Len(parsed) :
        (parsed[n].op = "get_transactions" /\ ~parsed[n].out.raised)
            => RowsAccountedFor(parsed[n])

------------------------------------------------------------------------------
(* process_queue_item on uploaded files (SpecQueue) *)

\* a row of Alice's account 1 that counts, a row of Bob's account 2 that is
\* ignored from the budget, a row of the unknown category, two rows that fail
\* to parse, a row with an oversize field, and a line of white space
QueueLines ==
    {DataLine(GoodCells, 6),
     DataLine(CsvCells(SlashDate, " Tea ", "2", "5.0", "Dining & Drinks", "budget"), 6),
     DataLine(CsvCells(IsoDate, "Coffee", "1", "5", "Nope", ""), 6),
     DataLine(CsvCells(NoDate, "Coffee", "1", "5", "Groceries", ""), 6),
     DataLine(CsvCells(IsoDate, "Coffee", "1", "5", "Groceries", "bogus"), 6),
     DataLine(CsvCells(IsoDate, Oversize, "1", "5", "Groceries", ""), 6),
     BlankLine}

\* the empty file, and files of the full header and up to MaxQueueLines lines
QueueContents ==
    {<<>>} \cup
    {<<NamesLine(<<"Date", "Name", "Account Number", "Amount", "Category",
                   "Ignored From">>)>> \o body :
        body \in SeqsUpTo(QueueLines, MaxQueueLines)}

\* queue messages handled one after the other, each naming an uploaded file
NextQueue ==
    \/ \E content \in QueueContents :
          ProcessQueueItem(1, GetTransactions(content), MaxQueueCalls)
    \/ \E ok \in BOOLEAN : MayFail(ok) /\ QueryExisting(1, ok)
    \/ \E ok \in BOOLEAN : MayFail(ok) /\ SubmitTransaction(1, ok)
    \/ \E ok \in BOOLEAN : MayFail(ok) /\ GetCreditCards(1, ok)
    \/ \E ok \in BOOLEAN : MayFail(ok) /\ GetEntity(1, ok)
    \/ \E ok \in BOOLEAN : MayFail(ok) /\ UpdateEntity(1, ok)
    \/ \E ok \in BOOLEAN : MayFail(ok) /\ QueryFallback(1, ok)
    \/ \E ok \in BOOLEAN : MayFail(ok) /\ UpdateFallback(1, ok)
    \/ SendEmail(1)

SpecQueue == Init /\ [][NextQueue]_vars

------------------------------------------------------------------------------
(* Properties of process_queue_item on files with row errors (SpecQueue) *)

\* the position of the first occurrence of `name` in a sequence of calls,
\* 0 when it does not occur
FirstCall(invoked, name) ==
    IF \E k \in 1..Len(invoked) : invoked[k] = name
    THEN CHOOSE k \in 1..Len(invoked) :
            /\ invoked[k] = name
            /\ \A j \in 1..(k - 1) : invoked[j] # name
    ELSE 0

------------------------------------------------------------------------------
(* Card balance calls of one ingestion *)

\* the card of an account in a card table, as a set (empty when none)
CardsOfAccount(tbl, account_number) ==
    {tbl[rk] : rk \in {x \in DOMAIN tbl : tbl[x].AccountNumber = account_number}}

\* the transactions of ts on the account that no reconciliation date of a
\* card of tbl covers
EligibleOnAccount(ts, tbl, account_number) ==
    SelectSeq(ts, LAMBDA t :
        /\ t.account_number = account_number
        /\ \A c \in CardsOfAccount(tbl, account_number) : Eligible(t, c))

\* C31: in one ingestion update_card_balance is called at most once per
\* account number, and in an ingestion without a failing store call the delta
\* of the call is the sum of the signed amounts of the eligible transactions
\* of that account that the ingestion newly inserted; two such transactions
\* of one account give one call, not two.
C31_OncePerAccount ==
    \A i \in 1..Len(runs) :
        LET r == runs[i]
            bc == r.balance_calls
        IN  /\ \A a, b \in 1..Len(bc) :
                  bc[a].account_number = bc[b].account_number => a = b
            /\ r.failures = <<>> =>
                  \A a \in 1..Len(bc) :
                      bc[a].delta =
                          SumAmounts(EligibleOnAccount(r.result, r.cards0,
                                                       bc[a].account_number))
            /\ CountIn(r.invoked, "update_card_balance") = Len(bc)

\* an ingestion that newly inserted two eligible transactions of account 1
\* made one call, with the sum 10.00
C31_Witness ==
    \E i \in 1..Len(runs) :
        /\ runs[i].failures = <<>>
        /\ runs[i].result = <<Row(Jan15, 1, 1, A5), Row(Jan20, 1, 1, A5)>>
        /\ runs[i].balance_calls = <<[account_number |-> 1, delta |-> 1000]>>

------------------------------------------------------------------------------
(* Ingestions over accounts with and without a card *)

MaxCardLen == 2
MaxCardCalls == 1
MaxCardFaults == 2

\* the cards of InitCards and a card of account 3 that was saved with an id
\* of its own (controller.py:356 takes the id from the request body)
CardsWithOwnId ==
    [rk \in {"1", "2", "card-3"} |->
        IF rk = "card-3"
        THEN [RowKey |-> "card-3", AccountNumber |-> 3, CurrentBalance |-> 0,
              LastReconciled |-> None, etag |-> 0]
        ELSE InitCards[rk]]

InitCardsOwnId ==
    /\ InitApi
    /\ ledger = {}
    /\ cards = CardsWithOwnId
    /\ runs = <<>>
    /\ credited = [rk \in DOMAIN CardsWithOwnId |-> <<>>]
    /\ calls = 0
    /\ faults = 0
    /\ wk = [w \in {1} |-> IdleWk]
    /\ h = [w \in {1} |-> NoHistory]

\* a charge and its refund on card 2, a charge on account 9, which has no
\* card, and a charge on account 3
CardRows ==
    {Row(Jan20, 1, 2, A5), Row(Jan20, 2, 2, Dec(-5, 0)), Row(Jan20, 1, 9, A5),
     Row(Jan20, 1, 3, A5)}

CardInputs == SeqsUpTo(CardRows, MaxCardLen)

\* up to MaxCardFaults store calls of one ingestion may fail
MayFailCards(ok) == ok \/ faults < MaxCardFaults

NextCards ==
    \/ \E T \in CardInputs : ProcessQueueItem(1, Parsed(T), MaxCardCalls)
    \/ \E ok \in BOOLEAN : MayFailCards(ok) /\ QueryExisting(1, ok)
    \/ \E ok \in BOOLEAN : MayFailCards(ok) /\ SubmitTransaction(1, ok)
    \/ \E ok \in BOOLEAN : MayFailCards(ok) /\ GetCreditCards(1, ok)
    \/ \E ok \in BOOLEAN : MayFailCards(ok) /\ GetEntity(1, ok)
    \/ \E ok \in BOOLEAN : MayFailCards(ok) /\ UpdateEntity(1, ok)
    \/ \E ok \in BOOLEAN : MayFailCards(ok) /\ QueryFallback(1, ok)
    \/ \E ok \in BOOLEAN : MayFailCards(ok) /\ UpdateFallback(1, ok)
    \/ SendEmail(1)

SpecCards == InitCardsOwnId /\ [][NextCards]_vars

\* C32: update_card_balance is called only for an account number that has a
\* card and with a delta that is not zero.
C32_OnlyKnownNonZero ==
    \A i \in 1..Len(runs) :
        \A a \in 1..Len(runs[i].balance_calls) :
            /\ CardsOfAccount(runs[i].cards0, runs[i].balance_calls[a].account_number) # {}
            /\ runs[i].balance_calls[a].delta # 0

\* the two cases apart: a call for the account without a card, and a call
\* with the delta 0.00
C32_CallForUnknownAccount ==
    \E i \in 1..Len(runs) :
        /\ runs[i].failures = <<>>
        /\ runs[i].result = <<Row(Jan20, 1, 9, A5)>>
        /\ runs[i].balance_calls = <<[account_number |-> 9, delta |-> 500]>>

C32_CallWithZeroDelta ==
    \E i \in 1..Len(runs) :
        /\ runs[i].failures = <<>>
        /\ runs[i].result = <<Row(Jan20, 1, 2, A5), Row(Jan20, 2, 2, Dec(-5, 0))>>
        /\ runs[i].balance_calls = <<[account_number |-> 2, delta |-> 0]>>

------------------------------------------------------------------------------
(* Re-ingestion of stored keys *)

\* C33: a call of save_transactions issues no write for a row key that was
\* stored when the call began, every record stored then is stored unchanged
\* (import timestamp included) when the call ends, and so the set of stored
\* row keys only grows.
C33_StoredRecordUntouched ==
    \A i \in 1..Len(runs) :
        LET r == runs[i]
        IN  /\ \A k \in 1..Len(r.submits) :
                  KeysOfOps(r.submits[k].ops) \cap StoredKeys(r.store0) = {}
            /\ r.store0 \subseteq r.store1
            /\ StoredKeys(r.store0) \subseteq StoredKeys(r.store1)

------------------------------------------------------------------------------
(* Occurrence counters across calls *)

\* the occurrence indices of t's signature whose row key is stored in tbl
StoredOccurrences(tbl, t) ==
    {j \in 0..MaxLen : <<PartitionKey(t), GenerateRowKey(t, j)>> \in StoredKeys(tbl)}

\* C34: in a call whose query and submissions succeed, when the partition
\* stores exactly the keys of occurrences 0..n-1 of a signature and the input
\* holds m rows of that signature, the row of rank k (1..m, in input order)
\* is reported new if and only if k > n, so max(0, m-n) rows, the last ones,
\* are new, and afterwards the keys of occurrences 0..max(m,n)-1 are stored.
C34_CountersRestart ==
    \A i \in 1..Len(runs) :
        LET r == runs[i]
        IN  Clean(r) =>
            \A k \in 1..Len(r.keyed) :
                LET t == r.keyed[k].t
                    same == {j \in 1..Len(r.keyed) : Signature(r.keyed[j].t) = Signature(t)}
                    m == Cardinality(same)
                    rank == Cardinality({j \in same : j <= k})
                    n == Cardinality(StoredOccurrences(r.store0, t))
                    new == {j \in 1..Len(r.fresh) : Signature(r.fresh[j].t) = Signature(t)}
                IN  StoredOccurrences(r.store0, t) = 0..(n - 1) =>
                        /\ (\E j \in new : r.fresh[j].rk = r.keyed[k].rk) <=> rank > n
                        /\ Cardinality(new) = IF m > n THEN m - n ELSE 0
                        /\ CountIn(r.result, t) = Cardinality(new)
                        /\ StoredOccurrences(r.store1, t) = 0..((IF m > n THEN m ELSE n) - 1)

\* two occurrences were stored and the next call brought three: the third
\* is new
C34_Witness ==
    /\ Len(runs) = 2
    /\ Clean(runs[1]) /\ Clean(runs[2])
    /\ \E t \in SmallRows :
          /\ runs[1].input = <<t, t>>
          /\ runs[2].input = <<t, t, t>>
          /\ runs[2].result = <<t>>
          /\ runs[2].fresh[1].rk = GenerateRowKey(t, 2)

------------------------------------------------------------------------------
(* update_card_balance seen from its caller *)

\* the successful balance writes of a run made for one account number
WritesFor(r, account_number) ==
    {u \in 1..Len(r.updates) : r.updates[u].account_number = account_number}

\* the calls of a run that wrote nothing
CallsWithoutWrite(r) ==
    {a \in 1..Len(r.balance_calls) : WritesFor(r, r.balance_calls[a].account_number) = {}}

C35_FoundByAccountNumber ==
    \E i \in 1..Len(runs) :
        /\ runs[i].failures = <<>>
        /\ runs[i].updates = <<[account_number |-> 3, delta |-> 500, card |-> "card-3"]>>

\* both writes failed: an error is logged, no balance changed, and the call
\* for the next account was made
C35_NeitherPath ==
    \E i \in 1..Len(runs) :
        /\ runs[i].failures = <<"update", "update_fallback">>
        /\ Len(runs[i].balance_calls) = 2
        /\ runs[i].balance_calls[1].account_number = 2
        /\ WritesFor(runs[i], 2) = {}
        /\ runs[i].cards1["2"].CurrentBalance = 0
        /\ WritesFor(runs[i], 3) # {}

------------------------------------------------------------------------------
(* process_queue_item: the two exception handlers, controller.py:153-242 *)

MaxHandlerCalls == 1

\* (defect variant: the inner handler re-raises)
OnInnerErrorRaise == "raise"

\* controller.py:220-221: except Exception around save_transactions,
\* get_credit_cards and the update_card_balance loop: logging.error only
OnInnerError == "log"

\* controller.py:239-242: except Exception around the whole handler:
\* logging.error, then raise
OnOuterError == "raise"

\* the invocation ends in the outer handler: the exception of `step` is
\* logged and, re-raised, leaves process_queue_item
Aborted(l, hist, step) ==
    RunRecordOf(l, [hist EXCEPT !.exceptions = Append(@, step),
                                !.logged = Append(@, "error")],
                IF OnOuterError = "raise" THEN "raised" ELSE "returned")

\* controller.py:164 and 171-172: download_csv, or the people lookup
\* (get_all_people and the construction of the members), raises before
\* anything is saved
RaisesBeforeSave(w, step, parse, limit) ==
    /\ wk[w].pc = "idle"
    /\ calls < limit
    /\ step \in {"download_csv", "get_all_people"}
    /\ runs' = Append(runs,
                  Aborted([IdleWk EXCEPT !.transactions =
                                IF step = "download_csv" THEN <<>> ELSE parse.transactions,
                                         !.errors =
                                IF step = "download_csv" THEN <<>> ELSE parse.errors],
                          [NoHistory EXCEPT !.store0 = ledger, !.cards0 = cards], step))
    /\ calls' = calls + 1
    /\ UNCHANGED <<ledger, cards, wk, h, credited, faults>>
    /\ UNCHANGED apiVars

\* controller.py:174-180 when send_error_email raises (email_service.py:78-80
\* logs and re-raises)
ErrorEmailRaises(w, parse, limit) ==
    /\ wk[w].pc = "idle"
    /\ calls < limit
    /\ ~parse.raised
    /\ AllRowsFailed(parse)
    /\ runs' = Append(runs,
                  Aborted([IdleWk EXCEPT !.transactions = parse.transactions,
                                         !.errors = parse.errors],
                          [NoHistory EXCEPT !.store0 = ledger, !.cards0 = cards,
                                            !.invoked = <<"send_error_email">>],
                          "send_error_email"))
    /\ calls' = calls + 1
    /\ UNCHANGED <<ledger, cards, wk, h, credited, faults>>
    /\ UNCHANGED apiVars

\* an exception leaves one of the three calls inside the inner try:
\* save_transactions (submit_transaction raises an error that is not a
\* TableTransactionError; nothing of the chunk is committed),
\* get_credit_cards or update_card_balance (_get_table_client, which both
\* call outside their own try, raises)
RaisesInside(w, call) ==
    /\ \/ call = "save_transactions" /\ wk[w].pc = "submit"
       \/ call = "get_credit_cards" /\ wk[w].pc = "saved" /\ wk[w].caller = "queue"
       \/ call = "update_card_balance" /\ wk[w].pc = "get_entity"
    /\ wk' = [wk EXCEPT ![w].pc = "raised"]
    /\ h' = [h EXCEPT ![w].exceptions = Append(@, call),
                      ![w].invoked = IF call = "save_transactions" THEN @
                                     ELSE Append(@, call),
                      ![w].balance_calls =
                            IF call = "update_card_balance"
                            THEN Append(@, [account_number |->
                                                wk[w].card_updates[wk[w].u].account_number,
                                            delta |-> wk[w].card_updates[wk[w].u].delta])
                            ELSE @]
    /\ UNCHANGED <<ledger, cards, runs, credited, calls, faults>>
    /\ UNCHANGED apiVars

\* controller.py:220-221: the inner handler takes the exception, logs it, and
\* the handler goes on with the email step
CatchInner(w) ==
    /\ wk[w].pc = "raised"
    /\ wk[w].caller = "queue"
    /\ IF OnInnerError = "log"
       THEN /\ wk' = [wk EXCEPT ![w].pc = "email"]
            /\ h' = [h EXCEPT ![w].logged = Append(@, "error")]
            /\ UNCHANGED runs
       ELSE /\ runs' = Append(runs, RunRecordOf(wk[w], [h[w] EXCEPT !.logged = Append(@, "error")],
                                                "raised"))
            /\ wk' = [wk EXCEPT ![w] = IdleWk]
            /\ UNCHANGED h
    /\ UNCHANGED <<ledger, cards, credited, calls, faults>>
    /\ UNCHANGED apiVars

\* controller.py:235 when send_email raises: the summary is not sent and the
\* exception goes to the outer handler
SendEmailRaises(w) ==
    /\ wk[w].pc = "email"
    /\ LET members == Grouped(Members, wk[w].transactions)
       IN  /\ \E k \in 1..Len(members) : members[k].transactions # <<>>
           /\ runs' = Append(runs,
                         Aborted(wk[w], [h[w] EXCEPT !.invoked = Append(@, "send_email")],
                                 "send_email"))
    /\ wk' = [wk EXCEPT ![w] = IdleWk]
    /\ UNCHANGED <<ledger, cards, h, credited, calls, faults>>
    /\ UNCHANGED apiVars

\* a row of Alice's account, a row of Bob's, and a row of category OTHER,
\* which attaches to nobody
HandlerRows ==
    {Row(Jan20, 1, 1, A5), Row(Jan20, 1, 2, A5),
     Transaction(Jan20, 2, 1, A5, "Other", "")}

\* files without bad rows, and a file whose only row failed to parse
HandlerParses ==
    {Parsed(T) : T \in SeqsUpTo(HandlerRows, 2)}
        \cup {[raised |-> FALSE, transactions |-> <<>>,
               errors |-> <<[row |-> 1, reason |-> "Missing 'Date' field"]>>]}

NextHandler ==
    \/ \E parse \in HandlerParses : ProcessQueueItem(1, parse, MaxHandlerCalls)
    \/ \E parse \in HandlerParses, step \in {"download_csv", "get_all_people"} :
            RaisesBeforeSave(1, step, parse, MaxHandlerCalls)
    \/ \E parse \in HandlerParses : ErrorEmailRaises(1, parse, MaxHandlerCalls)
    \/ QueryExisting(1, TRUE)
    \/ SubmitTransaction(1, TRUE)
    \/ GetCreditCards(1, TRUE)
    \/ GetEntity(1, TRUE)
    \/ UpdateEntity(1, TRUE)
    \/ \E call \in {"save_transactions", "get_credit_cards", "update_card_balance"} :
            RaisesInside(1, call)
    \/ CatchInner(1)
    \/ SendEmail(1)
    \/ SendEmailRaises(1)

SpecHandler == Init /\ [][NextHandler]_vars

\* the calls whose exception the inner handler takes, and the steps whose
\* exception goes to the outer handler
InnerCalls == {"save_transactions", "get_credit_cards", "update_card_balance"}

OuterSteps == {"download_csv", "get_all_people", "send_email", "send_error_email"}

\* the email step over the transactions ts: the summary that is due
SummaryDue(ts) ==
    \E k \in 1..Len(Members) : WithTransactions(Members[k], ts).transactions # <<>>

\* C36: an exception of save_transactions, get_credit_cards or
\* update_card_balance is logged and the invocation goes on: when no later
\* step raises it returns, having sent the summary whenever a parsed
\* transaction attaches to a member; an exception of the download, of the
\* people lookup or of an email send ends the invocation raised, and an
\* invocation ends raised only so.
C36_InnerCaughtOuterRaised ==
    \A i \in 1..Len(runs) :
        LET r == runs[i]
            inner == {k \in 1..Len(r.exceptions) : r.exceptions[k] \in InnerCalls}
            outer == {k \in 1..Len(r.exceptions) : r.exceptions[k] \in OuterSteps}
        IN  /\ r.outcome = "raised" <=> outer # {}
            /\ Cardinality(inner) <= CountIn(r.logged, "error")
            /\ (inner # {} /\ outer = {}) =>
                  /\ r.outcome = "returned"
                  /\ IF SummaryDue(r.input)
                     THEN /\ r.emails = <<[kind |-> "summary", to |-> Recipients(Members),
                                          errors |-> r.errors]>>
                          /\ r.invoked[Len(r.invoked)] = "send_email"
                     ELSE r.emails = <<>>
            /\ (inner # {} /\ outer # {}) =>
                  /\ r.exceptions[CHOOSE k \in outer : TRUE] = "send_email"
                  /\ SummaryDue(r.input)
            /\ outer # {} => r.emails = <<>>

\* save_transactions raised on a file with a row of each member: logged, the
\* summary was sent, the invocation returned
C36_Witness ==
    \E i \in 1..Len(runs) :
        /\ runs[i].exceptions = <<"save_transactions">>
        /\ runs[i].input = <<Row(Jan20, 1, 1, A5), Row(Jan20, 1, 2, A5)>>
        /\ runs[i].outcome = "returned"
        /\ Len(runs[i].emails) = 1

C36_CardsRaised ==
    \E i \in 1..Len(runs) :
        /\ runs[i].exceptions = <<"get_credit_cards">>
        /\ runs[i].outcome = "returned" /\ Len(runs[i].emails) = 1

C36_UpdateRaised ==
    \E i \in 1..Len(runs) :
        /\ runs[i].exceptions = <<"update_card_balance">>
        /\ runs[i].outcome = "returned" /\ Len(runs[i].emails) = 1

\* the summary could not be sent after save_transactions had raised: the
\* invocation ends raised
C36_EmailRaised ==
    \E i \in 1..Len(runs) :
        /\ runs[i].exceptions = <<"save_transactions", "send_email">>
        /\ runs[i].outcome = "raised"

------------------------------------------------------------------------------
(* save_savings replacing a stored month in several chunks *)

MaxReplaceCalls == 2

\* item lists of 60 and 100 items
ReplaceSizes == {60, 100}

ReplaceData ==
    {[startingBalance |-> b, items |-> BulkItems(n)] : b \in {0, 1000}, n \in ReplaceSizes}

\* save_savings called again and again for one month; any submission may fail
NextSavingsReplace ==
    \/ \E data \in ReplaceData : SaveSavings(<<"user", "2023-11">>, data, MaxReplaceCalls)
    \/ SavingsQuery(TRUE)
    \/ \E ok \in BOOLEAN : SavingsSubmit(ok)
    \/ SavingsReturn

SpecSavingsReplace == Init /\ [][NextSavingsReplace]_vars

\* the table after the first n submissions of a call, each applied when it
\* was accepted
RECURSIVE AfterSubmits(_, _, _)
AfterSubmits(tbl, submits, n) ==
    IF n = 0 THEN tbl
    ELSE LET t == AfterSubmits(tbl, submits, n - 1)
         IN  IF submits[n].ok THEN BatchApplied(t, submits[n].ops) ELSE t

\* the operations of the submissions, one after the other
RECURSIVE SubmittedOps(_)
SubmittedOps(submits) ==
    IF submits = <<>> THEN <<>>
    ELSE submits[1].ops \o SubmittedOps(Tail(submits))

ItemRows(tbl, pk) == {e \in PartitionRows(tbl, pk) : IsItemKey(e.RowKey)}

\* C37: a save_savings call with more than 100 operations whose chunk k
\* failed raised the error, submitted nothing after chunk k, and left the
\* chunks 1..k-1 committed: the table afterwards is the table before with
\* exactly those chunks applied.
C37_FailedChunkStopsTheRest ==
    \A j \in 1..Len(svlog) :
        LET s == svlog[j]
        IN  (s.kind = "save" /\ Len(s.operations) > SavingsBatchSize /\ s.failures # <<>>) =>
            LET k == Len(s.submits)
            IN  /\ s.outcome = "raised"
                /\ k >= 1
                /\ ~s.submits[k].ok
                /\ \A c \in 1..(k - 1) :
                      /\ s.submits[c].ok
                      /\ Len(s.submits[c].ops) = SavingsBatchSize
                /\ SubmittedOps(s.submits) =
                      SubSeq(s.operations, 1,
                             IF k * SavingsBatchSize < Len(s.operations)
                             THEN k * SavingsBatchSize ELSE Len(s.operations))
                /\ s.after = AfterSubmits(s.before, s.submits, k - 1)

\* 100 items were stored and a list of 100 replaces them: the chunk of the
\* 100 deletes committed, the next chunk failed, the third was not submitted,
\* and the partition holds neither an old item nor a new one
C37_Witness ==
    \E j \in 1..Len(svlog) :
        /\ svlog[j].kind = "save"
        /\ svlog[j].outcome = "raised"
        /\ Len(svlog[j].operations) = 201
        /\ Len(svlog[j].submits) = 2
        /\ Cardinality(ItemRows(svlog[j].before, svlog[j].pk)) = 100
        /\ ItemRows(svlog[j].after, svlog[j].pk) = {}

------------------------------------------------------------------------------
(* handle_upload_async, controller.py:108-147 and controllers.py:122-157 *)

MaxUploads == 2

\* the x-ms-client-principal header of a request: absent; present but not
\* base64 JSON (the "test-user" of tests/test_function.py); a principal
\* without userDetails; a principal with userDetails
Principals == {"absent", "test-user", "no userDetails", "user@example.com"}

\* controller.py:56-71: the user's email read from the header, None when the
\* header is missing, cannot be decoded, or carries no userDetails
GetUserEmail(header) ==
    IF header = "user@example.com" THEN header ELSE None

\* (defect variant: a request passes without any principal)
AuthorizedAlways(impl, header) == TRUE

\* the request passes the check at the top of the handler:
\* `if not self._get_user_email(req)` in the Controller method,
\* `if "x-ms-client-principal" not in req.headers` in the module function
Authorized(impl, header) ==
    IF impl = "Controller" THEN GetUserEmail(header) # None
    ELSE header # "absent"

\* the uploaded file: none, larger than MAX_FILE_SIZE, or a file with a
\* filename (None for a file sent without one)
Files ==
    {[kind |-> "none", filename |-> None], [kind |-> "too large", filename |-> "test.csv"],
     [kind |-> "csv", filename |-> None], [kind |-> "csv", filename |-> "test.csv"],
     [kind |-> "csv", filename |-> "dir/test.csv"]}

\* _get_uploaded_file_content: the error response, or 0 with the filename
FileError(file) ==
    IF file.kind = "none" THEN 400 ELSE IF file.kind = "too large" THEN 413 ELSE 0

\* uploaded_file.filename or "upload.csv", then os.path.basename
BaseName(filename) ==
    IF filename = None THEN "upload.csv"
    ELSE IF filename = "dir/test.csv" THEN "test.csv" ELSE filename

\* f"{datetime.now().strftime('%Y%m%d%H%M%S')}_{base_name}"
BlobName(now, base_name) == <<now, base_name>>

\* (defect variant: the message names the file, not the blob)
MessageOfFile(blob_name) == [blob_name |-> <<0, blob_name[2]>>]

\* {"blob_name": blob_name}
MessageOf(blob_name) == [blob_name |-> blob_name]

UploadRequests == {[principal |-> p, file |-> f] : p \in Principals, f \in Files}

\* the request is answered: it joins the finished requests with its status
Responded(run, status, blobs, queue) ==
    [upload EXCEPT !.run = IdleUpload, !.blobs = blobs, !.queue = queue,
                   !.done = Append(@, [impl |-> run.impl, req |-> run.req,
                                       status |-> status, blob_name |-> run.blob_name,
                                       events |-> run.events,
                                       blobs0 |-> upload.blobs, blobs1 |-> blobs,
                                       queue0 |-> upload.queue, queue1 |-> queue])]

\* lines 108-129: the principal check (401), the file checks (400, 413) and
\* the blob name; the clock has moved on by `tick` seconds since the last
\* request
HandleUploadAsync(impl, req, tick, limit) ==
    /\ upload.run.pc = "idle"
    /\ Len(upload.done) < limit
    /\ LET run == [IdleUpload EXCEPT !.impl = impl, !.req = req]
           now == upload.now + tick
       IN  upload' =
             IF ~Authorized(impl, req.principal)
             THEN Responded(run, 401, upload.blobs, upload.queue)
             ELSE IF FileError(req.file) # 0
             THEN Responded(run, FileError(req.file), upload.blobs, upload.queue)
             ELSE [upload EXCEPT !.now = now,
                                 !.run = [run EXCEPT !.pc = "upload_csv",
                                            !.blob_name = BlobName(now, BaseName(req.file.filename))]]
    /\ UNCHANGED <<keylog, savings, sv, svlog, group, parsed>>
    /\ UNCHANGED ingestVars

\* line 131: upload_csv(blob_name, content) with overwrite=True; an exception
\* goes to the handler at 143-147, which answers 500
UploadCsv(ok) ==
    /\ upload.run.pc = "upload_csv"
    /\ LET run == [upload.run EXCEPT !.events = Append(@, IF ok THEN "uploaded" ELSE "upload raised")]
       IN  upload' =
             IF ok
             THEN [upload EXCEPT !.run = [run EXCEPT !.pc = "enqueue_message"],
                                 !.blobs = @ \cup {run.blob_name}]
             ELSE Responded(run, 500, upload.blobs, upload.queue)
    /\ UNCHANGED <<keylog, savings, sv, svlog, group, parsed>>
    /\ UNCHANGED ingestVars

\* lines 135-141: enqueue_message({"blob_name": blob_name}) and the 202; an
\* exception of the queue goes to the same handler
EnqueueMessage(ok) ==
    /\ upload.run.pc = "enqueue_message"
    /\ LET run == [upload.run EXCEPT !.events = Append(@, IF ok THEN "enqueued" ELSE "enqueue raised")]
       IN  upload' =
             IF ok
             THEN Responded(run, 202, upload.blobs, Append(upload.queue, MessageOf(run.blob_name)))
             ELSE Responded(run, 500, upload.blobs, upload.queue)
    /\ UNCHANGED <<keylog, savings, sv, svlog, group, parsed>>
    /\ UNCHANGED ingestVars

NextUpload ==
    \/ \E impl \in {"Controller", "controllers"}, req \in UploadRequests, tick \in {0, 1} :
            HandleUploadAsync(impl, req, tick, MaxUploads)
    \/ \E ok \in BOOLEAN : UploadCsv(ok)
    \/ \E ok \in BOOLEAN : EnqueueMessage(ok)

SpecUpload == Init /\ [][NextUpload]_vars

\* C38: a message is enqueued only by a request whose upload succeeded
\* before, and it names the blob that request uploaded; a request without a
\* principal header (and, in the Controller method, any request from which no
\* user can be read) gets 401 and neither uploads nor enqueues; when the
\* upload raises nothing is enqueued and the answer is 500; when upload and
\* enqueue succeed the answer is 202, and only then.
C38_EnqueueAfterUpload ==
    /\ \A i \in 1..Len(upload.done) :
          LET d == upload.done[i]
              added == SubSeq(d.queue1, Len(d.queue0) + 1, Len(d.queue1))
          IN  /\ Len(d.queue1) >= Len(d.queue0)
              /\ SubSeq(d.queue1, 1, Len(d.queue0)) = d.queue0
              /\ IF d.events = <<"uploaded", "enqueued">>
                 THEN /\ d.status = 202
                      /\ added = <<[blob_name |-> d.blob_name]>>
                      /\ d.blob_name \in d.blobs1
                 ELSE /\ d.status # 202
                      /\ added = <<>>
              /\ (d.req.principal = "absent"
                    \/ (d.impl = "Controller" /\ d.req.principal # "user@example.com")) =>
                    /\ d.status = 401
                    /\ d.events = <<>>
                    /\ d.blobs1 = d.blobs0
              /\ d.events = <<"upload raised">> =>
                    /\ d.status = 500
                    /\ d.blobs1 = d.blobs0
              /\ d.status = 401 => d.events = <<>>
    /\ upload.run.pc = "upload_csv" => upload.run.events = <<>>
    /\ Len(upload.queue) = Cardinality({i \in 1..Len(upload.done) : upload.done[i].status = 202})

\* an accepted upload: the blob is stored and the one new message names it
C38_Witness ==
    \E i \in 1..Len(upload.done) :
        /\ upload.done[i].status = 202
        /\ upload.done[i].req.file.filename = "dir/test.csv"
        /\ upload.done[i].blob_name[2] = "test.csv"
        /\ upload.queue[Len(upload.queue)] = [blob_name |-> upload.done[i].blob_name]
        /\ upload.done[i].blob_name \in upload.blobs

C38_UploadRaised ==
    \E i \in 1..Len(upload.done) :
        /\ upload.done[i].events = <<"upload raised">>
        /\ upload.done[i].status = 500
        /\ upload.queue = <<>>

C38_Unauthorized ==
    \E i \in 1..Len(upload.done) :
        /\ upload.done[i].req.principal = "absent"
        /\ upload.done[i].req.file.kind = "csv"
        /\ upload.done[i].status = 401

------------------------------------------------------------------------------
(* The save_transactions of db.py:94-153 and of services.py:232-283 *)

MaxSchemeCalls == 2
MaxSchemeLen == 2

\* (defect variant: `occurrences` is created anew for every chunk)
CarriedOccurrencesNone(trans_list, i, sig) == 0

\* occurrences[sig] when the chunk starting at offset i begins: the dict is
\* created once per partition, before the chunk loop
CarriedOccurrences(trans_list, i, sig) ==
    Cardinality({j \in 1..i : Signature(trans_list[j]) = sig})

\* the occurrence index of the k-th row of the chunk at offset i.
\* db.py:123-124 reads occurrences[sig] and then increments it;
\* services.py:263-264 increments it and then reads it minus one
LegacyIdx(impl, trans_list, i, k) ==
    LET sig == Signature(trans_list[i + k])
        carried == CarriedOccurrences(trans_list, i, sig)
        before == Cardinality({j \in (i + 1)..(i + k - 1) : Signature(trans_list[j]) = sig})
        upto == Cardinality({j \in (i + 1)..(i + k) : Signature(trans_list[j]) = sig})
    IN  IF impl = "db" THEN carried + before
        ELSE (carried + upto) - 1

\* chunk = trans_list[i : i + 100] as the positions it covers
ChunkLen(trans_list, i) ==
    IF i + BatchSize < Len(trans_list) THEN BatchSize ELSE Len(trans_list) - i

\* the batch built from the chunk at offset i: one REPLACE upsert per row,
\* keyed by _generate_row_key(t, idx) (the same function in the three files)
LegacyBatch(impl, pk, trans_list, i, timestamp) ==
    [k \in 1..ChunkLen(trans_list, i) |->
        [op |-> "upsert",
         entity |-> CreateTransactionEntity(trans_list[i + k], pk,
                        GenerateRowKey(trans_list[i + k], LegacyIdx(impl, trans_list, i, k)),
                        timestamp)]]

\* the batches of one partition, chunk after chunk, each batch a list built
\* before it is submitted
RECURSIVE LegacyBatches(_, _, _, _, _)
LegacyBatches(impl, pk, trans_list, i, timestamp) ==
    IF i >= Len(trans_list) THEN <<>>
    ELSE <<[pk |-> pk, ops |-> LegacyBatch(impl, pk, trans_list, i, timestamp) \o <<>>]>>
            \o LegacyBatches(impl, pk, trans_list, i + BatchSize, timestamp)

\* the batches of a call, partition after partition (dict insertion order)
RECURSIVE LegacySubmits(_, _, _, _)
LegacySubmits(impl, T, parts, timestamp) ==
    IF parts = <<>> THEN <<>>
    ELSE LegacyBatches(impl, Head(parts), PartitionList(T, Head(parts)), 0, timestamp)
            \o LegacySubmits(impl, T, Tail(parts), timestamp)

\* the table after the batches, each committed unless its submission failed
\* (the TableTransactionError is logged and the loop goes on)
RECURSIVE AfterBatches(_, _, _, _)
AfterBatches(tbl, batches, n, failed) ==
    IF n = 0 THEN tbl
    ELSE LET t == AfterBatches(tbl, batches, n - 1, failed)
         IN  IF n \in failed THEN t ELSE Upserted(t, batches[n].ops)

\* the rows of the batches with their keys, in the order they were keyed
RECURSIVE KeyedBy(_)
KeyedBy(batches) ==
    IF batches = <<>> THEN <<>>
    ELSE [k \in 1..Len(Head(batches).ops) |->
            [pk |-> Head(batches).pk, rk |-> Head(batches).ops[k].entity.RowKey]]
         \o KeyedBy(Tail(batches))

\* one call of the save_transactions of db.py or services.py: no query, every
\* row is upserted; the call returns None
LegacySave(impl, T, limit) ==
    /\ wk[1].pc = "idle"
    /\ calls < limit
    /\ LET batches == LegacySubmits(impl, T, PartitionOrder(T), Now(calls))
       IN  \E failed \in SUBSET (1..Len(batches)) :
           LET after == AfterBatches(ledger, batches, Len(batches), failed)
           IN
           /\ ledger' = after
           /\ runs' = Append(runs,
                        [RunRecordOf([IdleWk EXCEPT !.transactions = T, !.caller = impl],
                                     [NoHistory EXCEPT
                                        !.store0 = ledger, !.cards0 = cards,
                                        !.submits = [n \in 1..Len(batches) |->
                                                        [pk |-> batches[n].pk,
                                                         ops |-> batches[n].ops,
                                                         ok |-> n \notin failed]],
                                        !.failures = [n \in 1..Cardinality(failed) |-> "submit"],
                                        !.logged = [n \in 1..Cardinality(failed) |-> "error"],
                                        !.invoked = <<impl>>],
                                     "returned")
                         EXCEPT !.store1 = after, !.keyed = KeyedBy(batches)])
    /\ calls' = calls + 1
    /\ UNCHANGED <<cards, wk, h, credited, faults>>
    /\ UNCHANGED apiVars

\* the same row with the amount written as 5 and as 5.0, and a row of
\* another month
SchemeRows ==
    {Row(Jan10, 1, 1, A5), Row(Jan10, 1, 1, Dec(50, 1)), Row(Feb05, 1, 1, A5)}

\* BatchSize different rows of one month and then the first of them again:
\* the repetition falls into the second chunk
Straddling ==
    [k \in 1..(BatchSize + 1) |->
        IF k <= BatchSize THEN Row(Jan10, k, 1, A5) ELSE Row(Jan10, 1, 1, A5)]

SchemeInputs == SeqsUpTo(SchemeRows, MaxSchemeLen) \cup {Straddling}

\* calls of the three implementations on one ledger, one after the other
NextSchemes ==
    \/ \E impl \in {"db", "services"}, T \in SchemeInputs :
            LegacySave(impl, T, MaxSchemeCalls)
    \/ \E T \in SchemeInputs : SaveBegin(1, T, "direct", <<>>, MaxSchemeCalls)
    \/ QueryExisting(1, TRUE)
    \/ SubmitTransaction(1, TRUE)
    \/ SaveReturn(1)

SpecSchemes == Init /\ [][NextSchemes]_vars

\* the (partition key, row key) given to the rows of the input of a call, in
\* the order the call keyed them
KeysGiven(r) == [k \in 1..Len(r.keyed) |-> <<r.keyed[k].pk, r.keyed[k].rk>>]

\* C39: two calls with the same input list give its rows the same partition
\* keys and row keys, whichever of the three implementations ran them; and
\* when db.py or services.py stored a list without a failed submission, the
\* save_transactions of services/database_service.py called next with that
\* list finds every row stored: it returns [] and writes nothing.
C39_SameKeys ==
    \A i, j \in 1..Len(runs) :
        runs[i].input = runs[j].input =>
            /\ KeysGiven(runs[i]) = KeysGiven(runs[j])
            /\ (/\ j = i + 1
                /\ runs[i].invoked[1] \in {"db", "services"}
                /\ runs[i].failures = <<>>
                /\ runs[j].invoked[1] = "save_transactions") =>
                    /\ runs[j].result = <<>>
                    /\ runs[j].submits = <<>>
                    /\ runs[j].store1 = runs[i].store1

\* db.py stored the list whose repetition straddles two chunks, and the
\* query-and-diff found all 101 rows
C39_Witness ==
    /\ Len(runs) = 2
    /\ runs[1].invoked = <<"db">>
    /\ runs[1].input = Straddling
    /\ Len(runs[1].submits) = 2
    /\ runs[1].failures = <<>>
    /\ runs[2].invoked = <<"save_transactions">>
    /\ runs[2].input = Straddling
    /\ runs[2].result = <<>>
    /\ Cardinality(runs[2].store1) = BatchSize + 1

====
